---- MODULE Spec2Model ----
(***************************************************************************)
(* Model of the log-ai search executor (src/src/server.py) and of the      *)
(* coordination objects it selects (src/src/redis_coordinator.py).         *)
(*                                                                         *)
(* One step of the model is one run of a coroutine between two suspension  *)
(* points of the asyncio event loop: the loop is single-threaded, so the   *)
(* code between two awaits is atomic.                                      *)
(***************************************************************************)
EXTENDS Integers, Sequences, FiniteSets, TLC

(***************************************************************************)
(* Bounds of the model and configuration values.                           *)
(***************************************************************************)
\* number of search_logs calls that may be in progress at the same time
MaxCalls == 2
\* most lines a scanner child writes to its stdout for one service
MaxEmit == 1
\* most services one call resolves to
MaxServices == 2
\* config.max_global_searches (N)
MAX_GLOBAL_SEARCHES == 1
\* config.max_parallel_searches_per_call (M)
MAX_PARALLEL_SEARCHES_PER_CALL == 1
\* config.preview_matches_limit
PREVIEW_MATCHES_LIMIT == 1
\* config.cache_max_entries
CACHE_MAX_ENTRIES == 2
\* CACHE_MAX_SIZE_MB * 1024 * 1024, in units of one serialized match
CACHE_MAX_BYTES == 100
\* most log files find_log_files returns for one service
MaxFiles == 1
\* latest modification time of the catalog file
MaxMtime == 1
\* latest reading of the clock, in hours
MaxNow == 3
\* hours of one calendar day
TicksPerDay == 2
\* config.file_retention_hours
FILE_RETENTION_HOURS == 1
\* config.cleanup_interval_hours
CLEANUP_INTERVAL_HOURS == 1
\* most spill files the searches write
MaxSpills == 1
\* the 10 MB above which read_search_file refuses a file, in units of one
\* serialized match
READ_MAX_SIZE == 1
\* instants of one hour: a window bound is an instant
SlotsPerHour == 2
\* latest instant of a window bound
MaxInstant == 9
\* searches stored in the local cache before the first observed operation
MaxSeed == 10
\* config.cache_ttl_minutes
CACHE_TTL_MINUTES == 1
\* most recordings of one kind on the MetricsCollector
MaxRecords == 2
\* number of clients of the distributed semaphore
MaxClients == 2
\* max_retries of RedisSemaphore.__aenter__ (100 in the code)
MaxRetries == 2

Calls == 1..MaxCalls

\* config.services: the catalog, names in lexicographic order
Catalog == <<"hub-ca-auth", "hub-na-auth", "hub-us-auth">>

\* position of a service name in the lexicographic order used by sorted()
Rank(name) == CHOOSE i \in 1..Len(Catalog) : Catalog[i] = name

\* the resolved, de-duplicated service lists a call may run with
ServiceLists == { SubSeq(Catalog, 1, n) : n \in 1..MaxServices }

\* the literal patterns of the calls
Queries == {"ERROR", "WARN"}

\* the time windows of the calls: [start hour, end hour]
TimeRanges == {<<14, 16>>}

\* Python None, and a key that a dict does not hold
None == "<None>"
Absent == "<absent>"

\* str(e) of the exceptions a scan task can raise: asyncio.TimeoutError() and
\* other exceptions built without arguments have the empty message
ExceptionMessages == {"", "Separator is not found, and chunk exceed the limit"}

\* line 1465
TimeoutMessage == "Search auto-cancelled after AUTO_CANCEL_TIMEOUT_SECONDS seconds"

\* Python truth value of an Optional[str]
Truthy(s) == s # None /\ s # ""

Min(a, b) == IF a < b THEN a ELSE b

RECURSIVE SumSeq(_)
SumSeq(s) == IF s = << >> THEN 0 ELSE Head(s) + SumSeq(Tail(s))

(***************************************************************************)
(* Service resolution (config.py 48-206).  A string is the sequence of its *)
(* characters, so that lower(), replace(), startswith() and "in" are       *)
(* computed as Python computes them.                                       *)
(***************************************************************************)
UpperCase == <<"A","B","C","D","E","F","G","H","I","J","K","L","M",
               "N","O","P","Q","R","S","T","U","V","W","X","Y","Z">>

LowerCase == <<"a","b","c","d","e","f","g","h","i","j","k","l","m",
               "n","o","p","q","r","s","t","u","v","w","x","y","z">>

\* str.lower() on one character
Lower(ch) ==
    IF \E k \in 1..Len(UpperCase) : UpperCase[k] = ch
    THEN LowerCase[CHOOSE k \in 1..Len(UpperCase) : UpperCase[k] = ch]
    ELSE ch

\* str.upper() on one character
Upper(ch) ==
    IF \E k \in 1..Len(LowerCase) : LowerCase[k] = ch
    THEN UpperCase[CHOOSE k \in 1..Len(LowerCase) : LowerCase[k] = ch]
    ELSE ch

\* the characters str.strip() removes, of those that occur in the model
Whitespace == {" ", "\t"}

\* str.strip()
RECURSIVE LStrip(_)
LStrip(s) == IF s # << >> /\ Head(s) \in Whitespace THEN LStrip(Tail(s)) ELSE s

RECURSIVE RStrip(_)
RStrip(s) ==
    IF s # << >> /\ s[Len(s)] \in Whitespace THEN RStrip(SubSeq(s, 1, Len(s) - 1)) ELSE s

Strip(s) == RStrip(LStrip(s))

\* str.startswith(p)
StartsWith(s, p) == Len(p) <= Len(s) /\ SubSeq(s, 1, Len(p)) = p

\* "sub in s"
Contains(s, sub) ==
    \E k \in 0..(Len(s) - Len(sub)) : SubSeq(s, k + 1, k + Len(sub)) = sub

\* the characters of the catalog's service names
NameChars(name) ==
    CASE name = "hub-ca-auth" -> <<"h","u","b","-","c","a","-","a","u","t","h">>
      [] name = "hub-na-auth" -> <<"h","u","b","-","n","a","-","a","u","t","h">>
      [] name = "hub-us-auth" -> <<"h","u","b","-","u","s","-","a","u","t","h">>

\* ServiceConfig.sentry_service_name of the catalog's services
SentryServiceName(name) ==
    IF name = "hub-na-auth" THEN None
    ELSE <<"a","u","t","h","-","s","e","r","v","i","c","e">>

\* normalize_service_name: name.strip().lower().replace('_', '-').replace(' ', '-')
NormalizeServiceName(name) ==
    LET t == Strip(name)
    IN  [i \in 1..Len(t) |->
            IF Lower(t[i]) \in {"_", " "} THEN "-" ELSE Lower(t[i])]

\* the locale prefixes get_base_service_name strips, in its order
BasePrefixes ==
    << <<"h","u","b","-","c","a","-">>, <<"h","u","b","-","u","s","-">>,
       <<"h","u","b","-","n","a","-">>, <<"e","d","r","-","n","a","-">>,
       <<"e","d","r","t","i","e","r","3","-","n","a","-">>, <<"h","u","b","-">> >>

\* get_base_service_name
GetBaseServiceName(service_name) ==
    LET normalized == NormalizeServiceName(service_name)
        hits == { k \in 1..Len(BasePrefixes) : StartsWith(normalized, BasePrefixes[k]) }
    IN  IF hits = {} THEN normalized
        ELSE LET k == CHOOSE m \in hits : \A n \in hits : m <= n
             IN  SubSeq(normalized, Len(BasePrefixes[k]) + 1, Len(normalized))

\* the locale filter of resolve_service_names (137-155)
CandidateServices(locale) ==
    IF locale = None THEN Catalog
    ELSE LET locale_lower == [i \in 1..Len(locale) |-> Lower(locale[i])]
         IN  IF locale_lower = <<"n","a">>
             THEN SelectSeq(Catalog, LAMBDA n :
                      \/ StartsWith(NameChars(n), <<"h","u","b","-","n","a","-">>)
                      \/ StartsWith(NameChars(n), <<"e","d","r","-","n","a","-">>)
                      \/ StartsWith(NameChars(n),
                             <<"e","d","r","t","i","e","r","3","-","n","a","-">>))
             ELSE SelectSeq(Catalog, LAMBDA n :
                      StartsWith(NameChars(n), <<"h","u","b","-">> \o locale_lower \o <<"-">>))

\* resolve_service_names: the names of the matching services, in catalog order
ResolveServiceNames(query, locale) ==
    LET normalized_query == NormalizeServiceName(query)
        candidates == CandidateServices(locale)
        exact == SelectSeq(candidates, LAMBDA n :
                     NormalizeServiceName(NameChars(n)) = normalized_query)
        sentry == SelectSeq(candidates, LAMBDA n :
                      /\ SentryServiceName(n) # None
                      /\ NormalizeServiceName(SentryServiceName(n)) = normalized_query)
        query_base == GetBaseServiceName(normalized_query)
        base == SelectSeq(candidates, LAMBDA n :
                    GetBaseServiceName(NameChars(n)) = query_base)
        partial == SelectSeq(candidates, LAMBDA n :
                       \/ Contains(NormalizeServiceName(NameChars(n)), normalized_query)
                       \/ Contains(GetBaseServiceName(NameChars(n)), normalized_query)
                       \/ /\ SentryServiceName(n) # None
                          /\ Contains(NormalizeServiceName(SentryServiceName(n)),
                                      normalized_query))
    IN  IF exact # << >> THEN exact
        ELSE IF sentry # << >> THEN sentry
        ELSE IF base # << >> THEN base
        ELSE partial

\* list(dict.fromkeys(services)): the first occurrence of every name is kept
RECURSIVE Dedupe(_, _)
Dedupe(s, seen) ==
    IF s = << >> THEN << >>
    ELSE IF Head(s) \in seen THEN Dedupe(Tail(s), seen)
    ELSE <<Head(s)>> \o Dedupe(Tail(s), seen \cup {Head(s)})

\* mutant: a token that matches nothing is skipped and the loop goes on
RECURSIVE ResolveAll_SkipUnmatched(_, _, _)
ResolveAll_SkipUnmatched(service_queries, locale, services) ==
    IF service_queries = << >>
    THEN [found |-> TRUE, services |-> Dedupe(services, {})]
    ELSE ResolveAll_SkipUnmatched(Tail(service_queries), locale,
             services \o ResolveServiceNames(Head(service_queries), locale))

\* the loop of search_logs_handler (1278-1291): the first token that matches
\* nothing ends it with the error text; services holds what the tokens before
\* it resolved to, and is dropped with the return
RECURSIVE ResolveAll(_, _, _)
ResolveAll(service_queries, locale, services) ==
    IF service_queries = << >>
    THEN [found |-> TRUE, services |-> Dedupe(services, {})]
    ELSE LET matched == ResolveServiceNames(Head(service_queries), locale)
         IN  IF matched = << >> THEN [found |-> FALSE, services |-> services]
             ELSE ResolveAll(Tail(service_queries), locale, services \o matched)

\* whether some token of the argument matches no service
UnresolvedToken(service_queries, locale) ==
    \E k \in 1..Len(service_queries) :
        ResolveServiceNames(service_queries[k], locale) = << >>

\* the service_name arguments of the calls: an exact name, the exact name and
\* a spelling variant of a second one, the same service named twice, a name
\* of no service, and a known name followed by a name of no service
ServiceQueries ==
    { << <<"h","u","b","-","c","a","-","a","u","t","h">> >>,
      << <<"h","u","b","-","c","a","-","a","u","t","h">>,
         <<" ","H","u","b","_","N","A"," ","a","u","t","h">> >>,
      << <<"h","u","b","-","c","a","-","a","u","t","h">>,
         <<"H","U","B","_","C","A","_","A","U","T","H"," ">> >>,
      << <<"p","a","y","m","e","n","t","s">> >>,
      << <<"h","u","b","-","c","a","-","a","u","t","h">>,
         <<"p","a","y","m","e","n","t","s">> >> }

\* the locale argument of the calls
Locales == {None, <<"c","a">>}

\* what the handler's resolution loop makes of the arguments of the calls:
\* whether every token matched, the de-duplicated services, and whether some
\* token of the argument matches no service
Resolutions ==
    { [found |-> ResolveAll(a[1], a[2], << >>).found,
       services |-> ResolveAll(a[1], a[2], << >>).services,
       unresolved |-> UnresolvedToken(a[1], a[2])] : a \in ServiceQueries \X Locales }

(***************************************************************************)
(* SearchCache (server.py 488-609).  md5 is taken to be injective, so the  *)
(* key is the string that is hashed: sorted services, query, window.       *)
(***************************************************************************)
RECURSIVE InsertSorted(_, _)
InsertSorted(x, s) ==
    IF s = << >> THEN <<x>>
    ELSE IF Rank(x) <= Rank(Head(s)) THEN <<x>> \o s
    ELSE <<Head(s)>> \o InsertSorted(x, Tail(s))

RECURSIVE Sorted(_)
Sorted(s) == IF s = << >> THEN << >> ELSE InsertSorted(Head(s), Sorted(Tail(s)))

\* mutant: the pattern is left out of the hashed string
MakeKey_IgnoresQuery(svcs, q, tr) ==
    [services |-> Sorted(svcs), query |-> "", time_range |-> tr]

\* SearchCache._make_key
MakeKey(svcs, q, tr) == [services |-> Sorted(svcs), query |-> q, time_range |-> tr]

\* SearchCache.__init__: an OrderedDict (oldest first) and the size total
NewSearchCache == [entries |-> << >>, total_size_bytes |-> 0, config_mtime |-> 0]

\* len(json.dumps({"matches": matches, "metadata": metadata})): one unit for
\* the metadata and one for every match
SerializedSize(matches, metadata) == 1 + Len(matches)

\* index of the entry stored under key, 0 when there is none
IndexOfKey(entries, key) ==
    IF \E i \in 1..Len(entries) : entries[i].key = key
    THEN CHOOSE i \in 1..Len(entries) : entries[i].key = key
    ELSE 0

RemoveAt(s, i) == SubSeq(s, 1, i - 1) \o SubSeq(s, i + 1, Len(s))

\* SearchCache.clear
CacheClear(cache) == [cache EXCEPT !.entries = << >>, !.total_size_bytes = 0]

\* SearchCache._check_config_invalidation, mtime the catalog file's st_mtime
CheckConfigInvalidation(cache, mtime) ==
    IF cache.config_mtime = 0 THEN [cache EXCEPT !.config_mtime = mtime]
    ELSE IF mtime > cache.config_mtime
         THEN [CacheClear(cache) EXCEPT !.config_mtime = mtime]
         ELSE cache

\* SearchCache.get: the cache after the call and what the call returns.
\* expired stands for age_minutes > CACHE_TTL_MINUTES of the entry found.
CacheGet(cache0, key, mtime, expired) ==
    LET cache == CheckConfigInvalidation(cache0, mtime)
        i == IndexOfKey(cache.entries, key)
    IN  IF i = 0 THEN [cache |-> cache, hit |-> FALSE, matches |-> << >>, metadata |-> Absent]
        ELSE IF expired
        THEN [cache |-> [cache EXCEPT !.entries = RemoveAt(@, i),
                                       !.total_size_bytes = @ - cache.entries[i].size_bytes],
              hit |-> FALSE, matches |-> << >>, metadata |-> Absent]
        ELSE [cache |-> [cache EXCEPT !.entries = RemoveAt(@, i) \o <<cache.entries[i]>>],
              hit |-> TRUE, matches |-> cache.entries[i].matches,
              metadata |-> cache.entries[i].metadata]

\* the values of expired for a lookup: an empty cache holds no entry whose age
\* could exceed the TTL
Expiries(cache0) == IF cache0.entries = << >> THEN {FALSE} ELSE BOOLEAN

\* metadata["cached"] = True (1376) writes into the dict the entry just moved
\* to the end of the OrderedDict holds
MarkCached(cache) ==
    [cache EXCEPT !.entries[Len(cache.entries)].metadata.cached = TRUE]

\* mutant: the evicted entry's size stays in the total
EvictLru_SizeKept(cache) ==
    IF cache.entries = << >> THEN cache ELSE [cache EXCEPT !.entries = Tail(@)]

\* SearchCache._evict_lru
EvictLru(cache) ==
    IF cache.entries = << >> THEN cache
    ELSE [cache EXCEPT !.entries = Tail(@),
                       !.total_size_bytes = @ - Head(cache.entries).size_bytes]

\* mutant: only the number of entries is looked at
MustEvict_EntriesOnly(cache, needed_bytes, max_bytes, max_entries) ==
    cache.entries # << >> /\ Len(cache.entries) >= max_entries

\* the loop condition of SearchCache._evict_until_fits (538)
MustEvict(cache, needed_bytes, max_bytes, max_entries) ==
    /\ cache.entries # << >>
    /\ (cache.total_size_bytes + needed_bytes > max_bytes
        \/ Len(cache.entries) >= max_entries)

\* SearchCache._evict_until_fits, for the caps max_bytes (CACHE_MAX_SIZE_MB *
\* 1024 * 1024) and max_entries (CACHE_MAX_ENTRIES) of the configuration
RECURSIVE EvictUntilFitsWith(_, _, _, _)
EvictUntilFitsWith(cache, needed_bytes, max_bytes, max_entries) ==
    IF MustEvict(cache, needed_bytes, max_bytes, max_entries)
    THEN EvictUntilFitsWith(EvictLru(cache), needed_bytes, max_bytes, max_entries)
    ELSE cache

\* SearchCache._evict_until_fits
EvictUntilFits(cache, needed_bytes) ==
    EvictUntilFitsWith(cache, needed_bytes, CACHE_MAX_BYTES, CACHE_MAX_ENTRIES)

\* SearchCache.put, for the caps of the configuration
CachePutWith(cache0, key, matches, metadata, max_bytes, max_entries) ==
    LET size_bytes == SerializedSize(matches, metadata)
    IN  IF size_bytes * 10 > max_bytes THEN cache0
        ELSE LET cache == EvictUntilFitsWith(cache0, size_bytes, max_bytes, max_entries)
                 entry == [key |-> key, matches |-> matches, metadata |-> metadata,
                           size_bytes |-> size_bytes]
                 i == IndexOfKey(cache.entries, key)
             IN  IF i # 0
                 THEN [cache EXCEPT !.entries[i] = entry,
                                    !.total_size_bytes =
                                        @ - cache.entries[i].size_bytes + size_bytes]
                 ELSE [cache EXCEPT !.entries = Append(@, entry),
                                    !.total_size_bytes = @ + size_bytes]

\* SearchCache.put
CachePut(cache0, key, matches, metadata) ==
    CachePutWith(cache0, key, matches, metadata, CACHE_MAX_BYTES, CACHE_MAX_ENTRIES)

(***************************************************************************)
(* Results, spill files and the pieces of _execute_search.                 *)
(***************************************************************************)
\* one parsed scanner line: the k-th match of a service (server.py 788-793)
Match(svc, k) == [service |-> svc, line |-> k]

\* LOG_DIR = Path(f"/tmp/log-ai/{SESSION_ID}"), as the characters of its text;
\* s1 stands for the session id drawn at startup
LOG_DIR == <<"/","t","m","p","/","l","o","g","-","a","i","/","s","1">>

\* strftime("%Y%m%d-%H%M%S") of a clock reading: the day and the time of day
Timestamp(t) == [day |-> t \div TicksPerDay, tod |-> t % TicksPerDay]

NoPath ==
    [dir |-> << >>, prefix |-> "", timestamp |-> Timestamp(0), services_str |-> << >>,
     unique_id |-> 0]

NoFile == [exists |-> FALSE, path |-> NoPath, contents |-> << >>]

NoMetadata ==
    [files_searched |-> 0, total_matches |-> 0, cached |-> FALSE, services |-> << >>,
     error |-> Absent, partial |-> FALSE, saved_to |-> NoPath, overflow |-> FALSE]

NoResponse == [kind |-> "none", matches |-> << >>, metadata |-> NoMetadata]

\* a search_single_service task: files is len(files) of its find_log_files
\* child is the scanner process of the task: "none" before
\* create_subprocess_exec, "running" from then on, "exited" once process.wait()
\* has returned
NoTask == [st |-> "pending", matches |-> << >>, msg |-> None, files |-> 0, child |-> "none"]

\* ProgressTracker(0, services)
NewProgress == [total_files |-> 0, files_searched |-> 0, total_matches |-> 0]

\* generate_output_filename: LOG_DIR / "{prefix}-{timestamp}-{services}-{uuid}.json";
\* uuid4 gives every call a name of its own
GenerateOutputFilename(svcs, is_partial, uid, t) ==
    [dir |-> LOG_DIR,
     prefix |-> IF is_partial THEN "logai-partial" ELSE "logai-search",
     timestamp |-> Timestamp(t), services_str |-> svcs, unique_id |-> uid]

\* mutant: only the preview is written to the spill file
SaveMatchesToFile_PreviewOnly(matches, filepath, ok) ==
    IF ok
    THEN [exists |-> TRUE, path |-> filepath,
          contents |-> SubSeq(matches, 1, Min(Len(matches), PREVIEW_MATCHES_LIMIT))]
    ELSE [exists |-> FALSE, path |-> NoPath, contents |-> << >>]

\* save_matches_to_file: ok is whether open() and json.dump() succeed
SaveMatchesToFile(matches, filepath, ok) ==
    IF ok THEN [exists |-> TRUE, path |-> filepath, contents |-> matches] ELSE NoFile

\* mutant: the semaphore never makes a task wait
SemaphoreFree_NeverBlocks(value) == TRUE

\* asyncio.Semaphore.acquire does not block while the value is positive
SemaphoreFree(value) == value > 0

\* what gather(return_exceptions=True) holds for one finished task
TaskResult(t) ==
    IF t.st = "raised" THEN [kind |-> "exception", msg |-> t.msg, matches |-> << >>]
    ELSE [kind |-> "list", msg |-> None, matches |-> t.matches]

\* the loop "for result in results" (1456-1462), from result i on
RECURSIVE CollectFrom(_, _, _)
CollectFrom(results, i, acc) ==
    IF i > Len(results) THEN acc
    ELSE CollectFrom(results, i + 1,
            IF results[i].kind = "exception"
            THEN [acc EXCEPT !.error_occurred = results[i].msg]
            ELSE [acc EXCEPT !.all_matches = @ \o results[i].matches])

\* mutant: the first exception ends the loop, as if gather had been awaited
\* without return_exceptions
RECURSIVE CollectUntilFailure(_, _, _)
CollectUntilFailure(results, i, acc) ==
    IF i > Len(results) THEN acc
    ELSE IF results[i].kind = "exception"
         THEN [acc EXCEPT !.error_occurred = results[i].msg]
         ELSE CollectUntilFailure(results, i + 1,
                  [acc EXCEPT !.all_matches = @ \o results[i].matches])

CollectResults_StopAtFailure(results) ==
    CollectUntilFailure(results, 1, [all_matches |-> << >>, error_occurred |-> None])

CollectResults(results) ==
    CollectFrom(results, 1, [all_matches |-> << >>, error_occurred |-> None])

\* the preview when the spill file was written (1496-1501)
PreviewOnSave(all) ==
    IF Len(all) > PREVIEW_MATCHES_LIMIT THEN SubSeq(all, 1, PREVIEW_MATCHES_LIMIT) ELSE all

\* mutant: without a spill file the whole list is returned
PreviewOnSaveFail_Whole(all) == all

\* the preview when writing the spill file failed (1505)
PreviewOnSaveFail(all) ==
    IF Len(all) > PREVIEW_MATCHES_LIMIT THEN SubSeq(all, 1, PREVIEW_MATCHES_LIMIT) ELSE all

\* metadata["overflow"], set only inside the branch of a successful save (1491-1497)
OverflowFlag(all, saved) == saved /\ Len(all) > PREVIEW_MATCHES_LIMIT

\* metadata["partial"], set under "if error_occurred" (1478-1480)
PartialFlag(err) == Truthy(err)

\* lines 1468-1510: metadata, spill file, preview and cache.put
BuildResult(svcs, q, tr, prog, all, err, saveOk, uid, t, cache0) ==
    LET saved_file == GenerateOutputFilename(svcs, err # None, uid, t)
        file == SaveMatchesToFile(all, saved_file, saveOk)
        metadata ==
            [files_searched |-> prog.total_files,
             total_matches |-> Len(all),
             cached |-> FALSE,
             services |-> svcs,
             error |-> IF PartialFlag(err) THEN err ELSE Absent,
             partial |-> PartialFlag(err),
             saved_to |-> IF file.exists THEN saved_file ELSE NoPath,
             overflow |-> OverflowFlag(all, file.exists)]
        preview == IF file.exists THEN PreviewOnSave(all) ELSE PreviewOnSaveFail(all)
    IN  [file |-> file,
         resp |-> [kind |-> "result", matches |-> preview, metadata |-> metadata],
         cache |-> IF ~Truthy(err) /\ ~metadata.overflow
                   THEN CachePut(cache0, MakeKey(svcs, q, tr), all, metadata)
                   ELSE cache0,
         cacheable |-> ~Truthy(err) /\ ~metadata.overflow]

(***************************************************************************)
(* Metrics (metrics_collector.py, datadog_integration.py).  sink is the    *)
(* DogStatsD client: "absent" when Datadog is not initialized, "failing"   *)
(* when its calls raise.  Every operator tells whether an exception leaves *)
(* the function it models.                                                 *)
(***************************************************************************)
\* mutant: record_metric without its except clause
RecordMetric_NoExcept(sink) == sink # "absent" /\ sink = "failing"

\* record_metric: returns at once when not initialized (235-236); an exception
\* of the client is caught and logged (252-253)
RecordMetric(sink) ==
    LET client_raised == sink = "failing"
        caught == client_raised
    IN  sink # "absent" /\ client_raised /\ ~caught

\* MetricsCollector.report_semaphore_utilization: a division by max_slots and
\* two record_metric calls, when Datadog is configured
ReportSemaphoreUtilization(sink, max_slots) ==
    sink # "absent" /\ (max_slots = 0 \/ RecordMetric(sink))

\* MetricsCollector._update_cache_metrics, called by record_cache_hit and
\* record_cache_miss after they counted the search: total is at least 1
UpdateCacheMetrics(sink) == sink # "absent" /\ RecordMetric(sink)

\* MetricsCollector._update_overflow_rate, called by record_overflow
UpdateOverflowRate(sink) == sink # "absent" /\ RecordMetric(sink)

\* the metric calls of a cache hit (1380, 1389-1401)
HitMetrics(sink) == UpdateCacheMetrics(sink) \/ RecordMetric(sink)

\* the metric calls after a search (1513-1556); record_timeout only counts
FinishMetrics(sink, overflow) ==
    \/ UpdateCacheMetrics(sink)
    \/ overflow /\ UpdateOverflowRate(sink)
    \/ RecordMetric(sink)

(***************************************************************************)
(* State.                                                                  *)
(***************************************************************************)
VARIABLES
    redis_connected,    \* module global set by init_redis at startup
    redis_reachable,    \* whether the shared store answers at this moment
    statsd,             \* the DogStatsD client: "absent", "up" or "failing"
    pc,                 \* per call: "idle", "fanout", "done", "raised"
    req,                \* per call: services resolved, query, time_range, and whether
                        \* a token of its service_name argument matches no service
    cache,              \* per call: the object get_search_cache() returned to it
    search_semaphore,   \* per call: _value of the object get_search_semaphore() returned
    per_call_semaphore, \* per call: _value of per_call_semaphore
    task,               \* per call: one search_single_service task per service
    progress,           \* per call: its ProgressTracker
    all_matches,        \* per call: the full match list (on a hit, the cached one)
    resp,               \* per call: what the handler returned
    spill,              \* per call: the file save_matches_to_file wrote
    search_cache,       \* a SearchCache that lives across searches
    redis_kv,           \* the log-ai:cache:* keys of the shared store
    cache_caps,         \* the byte cap and the entry cap of the configuration
    recency,            \* history: the stored fingerprints, least recently accessed first
    cache_ret,          \* the last call on that cache: arguments and return
    file_output_dir,    \* FILE_OUTPUT_DIR, the text of config.file_output_dir resolved
    disk,               \* the .json files of the file system
    now,                \* the clock: hours for the spill files, minutes for the cache
    last_sweep,         \* when cleanup_old_files_task last went to sleep
    read_ret,           \* the last read_search_file call: its path and its return
    resolve_ret,        \* the last resolve_service_names call: arguments and return
    sem_key,            \* the value of the key log-ai:sem:<key> in the shared store
    sem,                \* per client: its RedisSemaphore object and where it stands
    sem_ttl,            \* that key: "absent", "persistent" (no expiry set) or "volatile"
    collector,          \* the MetricsCollector of the process
    find_ret            \* the last find_log_files call: its arguments and its globs

\* the variables of the search executor
executorVars == <<redis_connected, redis_reachable, statsd, pc, req, cache, search_semaphore,
                  per_call_semaphore, task, progress, all_matches, resp, spill>>

\* the variables of the components taken on their own
componentVars == <<search_cache, redis_kv, cache_ret, cache_caps, recency>>

\* the variables of the spill files
fileVars == <<file_output_dir, disk, now, last_sweep, read_ret>>

\* the variables of the functions and objects taken on their own
unitVars == <<resolve_ret, find_ret, sem_key, sem, sem_ttl, collector>>

vars == <<executorVars, componentVars, fileVars, unitVars>>

\* the arguments of a call on a cache object, before any call
NoArgs == [services |-> << >>, query |-> "", time_range |-> [datetime |-> FALSE, value |-> << >>]]

\* what the last call on the cache was given and what it returned
NoReturn ==
    [op |-> "none", args |-> NoArgs, raised |-> FALSE, hit |-> FALSE,
     matches |-> << >>, metadata |-> NoMetadata]

NoRequest == [services |-> << >>, query |-> "", time_range |-> << >>, unresolved |-> FALSE]

\* what read_search_file was last given and what it returned
NoRead == [op |-> "none", path |-> NoPath, kind |-> "none", matches |-> << >>, total_matches |-> 0]

\* the values FILE_OUTPUT_DIR may be configured to, resolved: /tmp/log-ai, the
\* parent of every session directory, and /out
OutputDirs ==
    { <<"/","t","m","p","/","l","o","g","-","a","i">>, <<"/","o","u","t">> }

\* /tmp/log-ai-x, a directory next to /tmp/log-ai
SiblingDir == <<"/","t","m","p","/","l","o","g","-","a","i","-","x">>

\* files other programs left: one in the sibling directory and one directly in
\* the output directory, both named like a spill file written at hour 0
EnvFiles(base_dir) ==
    { [path |-> [dir |-> d, prefix |-> "logai-search", timestamp |-> Timestamp(0),
                 services_str |-> <<"hub-ca-auth">>, unique_id |-> 0],
       contents |-> <<Match("hub-ca-auth", 1)>>] : d \in {SiblingDir, base_dir} }

Clients == 1..MaxClients

\* the error_type values the callers record
ErrorTypes == {"ServiceNotFound", "TimeoutError"}

\* MetricsCollector(): the dataclass defaults (35-47)
NewMetricsCollector ==
    [cache_hits |-> 0, cache_misses |-> 0, total_searches |-> 0,
     searches_with_overflow |-> 0, searches_with_timeout |-> 0,
     errors_by_type |-> [e \in ErrorTypes |-> 0]]

\* RedisSemaphore.__init__ (131-136), with the position of the client:
\* "out", "incremented" (incr returned), "expiring" (before expire returns),
\* "holding" (inside the async with), "sleeping" (after the decr of a refused
\* attempt), "failed" (TimeoutError raised)
NewRedisSemaphore ==
    [pc |-> "out", token |-> 0, acquired |-> FALSE, current |-> 0, retry_count |-> 0]

\* what resolve_service_names was last given and the names it returned
NoResolve == [op |-> "none", query |-> << >>, locale |-> None, services |-> << >>]

\* what find_log_files was last given and the patterns it globbed
NoFind == [op |-> "none", templated |-> FALSE, start |-> 0, end |-> 0, globs |-> << >>]

\* module load and main(): the globals of server.py and the objects built
\* before the first request
Loaded ==
    /\ redis_connected \in BOOLEAN
    /\ redis_reachable = redis_connected
    /\ pc = [c \in Calls |-> "idle"]
    /\ req = [c \in Calls |-> NoRequest]
    /\ cache = [c \in Calls |-> NewSearchCache]
    /\ search_semaphore = [c \in Calls |-> MAX_GLOBAL_SEARCHES]
    /\ per_call_semaphore = [c \in Calls |-> MAX_PARALLEL_SEARCHES_PER_CALL]
    /\ task = [c \in Calls |-> << >>]
    /\ progress = [c \in Calls |-> NewProgress]
    /\ all_matches = [c \in Calls |-> << >>]
    /\ resp = [c \in Calls |-> NoResponse]
    /\ spill = [c \in Calls |-> NoFile]
    /\ redis_kv = {}
    /\ recency = << >>
    /\ cache_ret = NoReturn
    /\ now = 0
    /\ last_sweep = 0
    /\ read_ret = NoRead
    /\ resolve_ret = NoResolve
    /\ sem_key = 0
    /\ sem_ttl = "absent"
    /\ sem = [k \in Clients |-> NewRedisSemaphore]
    /\ collector = NewMetricsCollector
    /\ find_ret = NoFind

\* the caps of the configuration the executor runs with, and an empty cache
Configured ==
    /\ cache_caps = [max_bytes |-> CACHE_MAX_BYTES, max_entries |-> CACHE_MAX_ENTRIES]
    /\ search_cache = NewSearchCache

\* the executor reads neither FILE_OUTPUT_DIR nor the files of other programs:
\* its specifications start from one deployment
Init ==
    /\ Loaded
    /\ Configured
    /\ statsd = "absent"
    /\ file_output_dir = <<"/","o","u","t">>
    /\ disk = {}

\* the same deployment with Datadog configured or not, its agent answering or not
InitMetrics ==
    /\ Loaded
    /\ Configured
    /\ statsd \in {"absent", "up", "failing"}
    /\ file_output_dir = <<"/","o","u","t">>
    /\ disk = {}

\* any deployment, on a file system that may hold files of other programs
InitFiles ==
    /\ Loaded
    /\ Configured
    /\ statsd = "absent"
    /\ file_output_dir \in OutputDirs
    /\ disk \in SUBSET EnvFiles(file_output_dir)

Finished(t) == t.st \in {"returned", "raised"}

Running(c) == { i \in 1..Len(task[c]) : task[c][i].st = "running" }

(***************************************************************************)
(* search_logs_handler and _execute_search up to the first suspension      *)
(* (1266-1453).  A token that matches no service, or a missing timestamp   *)
(* (timestamps false), returns an error text before _execute_search is     *)
(* called.  With the store connected, get_search_cache() passes            *)
(* max_size_mb to RedisCache.__init__, which has no such parameter: the    *)
(* TypeError leaves the handler through "raise" at 1342, whether or not    *)
(* the store still answers.  Otherwise the cache and the semaphore are new *)
(* objects made for this call, so neither cache.get nor the acquire        *)
(* suspends.  The metric calls of the hit (1380) and before the acquire    *)
(* (1427) are outside every try of _execute_search: an exception that      *)
(* leaves them leaves the handler as well.                                 *)
(***************************************************************************)
\* the call returns or raises before any search object is made
Leave(c, kind) ==
    /\ pc' = [pc EXCEPT ![c] = IF kind \in {"TypeError", "MetricsError"} THEN "raised"
                                 ELSE "done"]
    /\ resp' = [resp EXCEPT ![c] = [NoResponse EXCEPT !.kind = kind]]
    /\ task' = [task EXCEPT ![c] = << >>]
    /\ all_matches' = [all_matches EXCEPT ![c] = << >>]
    /\ cache' = [cache EXCEPT ![c] = NewSearchCache]
    /\ search_semaphore' = [search_semaphore EXCEPT ![c] = MAX_GLOBAL_SEARCHES]

Start(c) ==
    /\ pc[c] \in {"idle", "done", "raised"}
    /\ \E resolved \in Resolutions, q \in Queries,
          timestamps \in BOOLEAN, tr \in TimeRanges, mtime \in 1..MaxMtime,
          expired \in Expiries(NewSearchCache) :
        LET svcs == resolved.services
            key == MakeKey(svcs, q, tr)
            got == CacheGet(NewSearchCache, key, mtime, expired)
        IN  /\ resolved.found => svcs \in ServiceLists
            /\ progress' = [progress EXCEPT ![c] = NewProgress]
            /\ spill' = [spill EXCEPT ![c] = NoFile]
            /\ per_call_semaphore' =
                   [per_call_semaphore EXCEPT ![c] = MAX_PARALLEL_SEARCHES_PER_CALL]
            /\ IF ~resolved.found
               THEN /\ req' = [req EXCEPT ![c] =
                                  [NoRequest EXCEPT !.unresolved = resolved.unresolved,
                                                    !.services = svcs]]
                    /\ Leave(c, "ServiceNotFound")
               ELSE IF ~timestamps
               THEN /\ req' = [req EXCEPT ![c] =
                                  [NoRequest EXCEPT !.unresolved = resolved.unresolved]]
                    /\ Leave(c, "TimestampsRequired")
               ELSE /\ req' = [req EXCEPT ![c] =
                                  [services |-> svcs, query |-> q, time_range |-> tr,
                                   unresolved |-> resolved.unresolved]]
                    /\ IF redis_connected
                       THEN Leave(c, "TypeError")
                       ELSE IF got.hit /\ HitMetrics(statsd)
                       THEN Leave(c, "MetricsError")
                       ELSE IF got.hit
                       THEN /\ pc' = [pc EXCEPT ![c] = "done"]
                            /\ resp' = [resp EXCEPT ![c] =
                                           [kind |-> "result", matches |-> got.matches,
                                            metadata |-> [got.metadata EXCEPT !.cached = TRUE]]]
                            /\ task' = [task EXCEPT ![c] = << >>]
                            /\ all_matches' = [all_matches EXCEPT ![c] = got.matches]
                            /\ cache' = [cache EXCEPT ![c] = MarkCached(got.cache)]
                            /\ search_semaphore' =
                                   [search_semaphore EXCEPT ![c] = MAX_GLOBAL_SEARCHES]
                       ELSE IF ReportSemaphoreUtilization(statsd, MAX_GLOBAL_SEARCHES)
                       THEN Leave(c, "MetricsError")
                       ELSE /\ SemaphoreFree(MAX_GLOBAL_SEARCHES)
                            /\ pc' = [pc EXCEPT ![c] = "fanout"]
                            /\ resp' = [resp EXCEPT ![c] = NoResponse]
                            /\ task' = [task EXCEPT ![c] = [i \in 1..Len(svcs) |-> NoTask]]
                            /\ all_matches' = [all_matches EXCEPT ![c] = << >>]
                            /\ cache' = [cache EXCEPT ![c] = got.cache]
                            /\ search_semaphore' =
                                   [search_semaphore EXCEPT ![c] = MAX_GLOBAL_SEARCHES - 1]
    /\ UNCHANGED <<redis_connected, redis_reachable, statsd, componentVars, fileVars, unitVars>>

\* the store stops answering after init_redis connected to it; nothing resets
\* redis_connected, the only assignment to it is at startup (333)
StoreLost ==
    /\ redis_connected
    /\ redis_reachable
    /\ redis_reachable' = FALSE
    /\ UNCHANGED <<redis_connected, statsd, pc, req, cache, search_semaphore, per_call_semaphore,
                   task, progress, all_matches, resp, spill, componentVars, fileVars, unitVars>>

(***************************************************************************)
(* search_single_service (884-916) and the scanner adapters (748-881).     *)
(***************************************************************************)
\* "async with semaphore", find_log_files, and the launch of the child.
\* Waiters of an asyncio.Semaphore are served in the order they arrived.
TaskAcquire(c, i) ==
    /\ pc[c] = "fanout"
    /\ i \in 1..Len(task[c])
    /\ task[c][i].st = "pending"
    /\ \A j \in 1..(i - 1) : task[c][j].st # "pending"
    /\ SemaphoreFree(per_call_semaphore[c])
    /\ \E nfiles \in 0..MaxFiles :
        IF nfiles = 0
        THEN /\ task' = [task EXCEPT ![c][i].st = "returned"]
             /\ UNCHANGED <<per_call_semaphore, progress>>
        ELSE /\ task' = [task EXCEPT ![c][i].st = "running", ![c][i].files = nfiles,
                                     ![c][i].child = "running"]
             /\ per_call_semaphore' = [per_call_semaphore EXCEPT ![c] = @ - 1]
             /\ progress' = [progress EXCEPT ![c].files_searched = nfiles]
    /\ UNCHANGED <<redis_connected, redis_reachable, statsd, pc, req, cache, search_semaphore,
                   all_matches, resp, spill, componentVars, fileVars, unitVars>>

\* readline() returns a line file:line:content, appended to matches
TaskEmit(c, i) ==
    /\ pc[c] = "fanout"
    /\ i \in 1..Len(task[c])
    /\ task[c][i].st = "running"
    /\ Len(task[c][i].matches) < MaxEmit
    /\ task' = [task EXCEPT ![c][i].matches =
                   Append(@, Match(req[c].services[i], Len(@) + 1))]
    /\ progress' = [progress EXCEPT ![c].total_matches = @ + 1]
    /\ UNCHANGED <<redis_connected, redis_reachable, statsd, pc, req, cache, search_semaphore,
                   per_call_semaphore, all_matches, resp, spill, componentVars, fileVars, unitVars>>

\* readline() returns b"", process.wait(), "return matches"; the exit status
\* of the child is not read
TaskReturn(c, i) ==
    /\ pc[c] = "fanout"
    /\ i \in 1..Len(task[c])
    /\ task[c][i].st = "running"
    /\ task' = [task EXCEPT ![c][i].st = "returned", ![c][i].child = "exited"]
    /\ per_call_semaphore' = [per_call_semaphore EXCEPT ![c] = @ + 1]
    /\ UNCHANGED <<redis_connected, redis_reachable, statsd, pc, req, cache, search_semaphore,
                   progress, all_matches, resp, spill, componentVars, fileVars, unitVars>>

\* create_subprocess_exec, readline() or wait() raises: "except Exception: raise"
\* (807-809) ends the task with the exception, its local list matches is dropped;
\* the handler writes a line to stderr and does nothing about the child
TaskRaise(c, i) ==
    /\ pc[c] = "fanout"
    /\ i \in 1..Len(task[c])
    /\ task[c][i].st = "running"
    /\ \E msg \in ExceptionMessages :
        task' = [task EXCEPT ![c][i].st = "raised", ![c][i].msg = msg]
    /\ per_call_semaphore' = [per_call_semaphore EXCEPT ![c] = @ + 1]
    /\ UNCHANGED <<redis_connected, redis_reachable, statsd, pc, req, cache, search_semaphore,
                   progress, all_matches, resp, spill, componentVars, fileVars, unitVars>>

(***************************************************************************)
(* _execute_search after the fan-out (1455-1602): no await, one step.  An  *)
(* exception that leaves a metric call (1513-1556) is caught at 1587 and   *)
(* returned as an error text.                                              *)
(***************************************************************************)
\* mutant: the slot is kept
Release_Skipped(value) == value

\* asyncio.Semaphore.release, called by __aexit__ of "async with
\* search_semaphore" (1434) however the block is left
Release(value) == value + 1

Finish(c, tasks, all, err, saveOk) ==
    LET r == BuildResult(req[c].services, req[c].query, req[c].time_range,
                         progress[c], all, err, saveOk, c, now, cache[c])
    IN  /\ task' = [task EXCEPT ![c] = tasks]
        /\ all_matches' = [all_matches EXCEPT ![c] = all]
        /\ spill' = [spill EXCEPT ![c] = r.file]
        /\ resp' = [resp EXCEPT ![c] =
                       IF FinishMetrics(statsd, r.resp.metadata.overflow)
                       THEN [NoResponse EXCEPT !.kind = "Error"]
                       ELSE r.resp]
        /\ cache' = [cache EXCEPT ![c] = r.cache]
        /\ search_semaphore' = [search_semaphore EXCEPT ![c] = Release(@)]
        /\ pc' = [pc EXCEPT ![c] = "done"]
        /\ UNCHANGED <<redis_connected, redis_reachable, statsd, req, progress, componentVars, fileVars, unitVars>>

\* gather() has every task's result
Collect(c) ==
    /\ pc[c] = "fanout"
    /\ \A i \in 1..Len(task[c]) : Finished(task[c][i])
    /\ LET got == CollectResults([i \in 1..Len(task[c]) |-> TaskResult(task[c][i])])
       IN  \E saveOk \in BOOLEAN :
               /\ Finish(c, task[c], got.all_matches, got.error_occurred, saveOk)
               /\ UNCHANGED per_call_semaphore

\* Task.cancel() on a scan task: CancelledError is raised at its await (the
\* acquire of the per-call semaphore, create_subprocess_exec, readline() or
\* wait()).  It is not an Exception: no handler of the task runs, and no
\* statement of the adapters kills or waits for the child (748-881).
CancelTask(t) == IF Finished(t) THEN t ELSE [t EXCEPT !.st = "cancelled"]

\* mutant: a cancelled task keeps its sub-slot
ReleasedOnCancel_None(tasks) == 0

\* the sub-slots given back by the cancelled tasks: each task that was inside
\* "async with semaphore" (896) leaves it through __aexit__
ReleasedOnCancel(tasks) ==
    Cardinality({ i \in 1..Len(tasks) : tasks[i].st = "running" })

\* wait_for's timeout fires: gather and its unfinished tasks are cancelled (each
\* leaves "async with semaphore"), results is never bound (1464-1466)
Deadline(c) ==
    /\ pc[c] = "fanout"
    /\ \E i \in 1..Len(task[c]) : ~Finished(task[c][i])
    /\ LET tasks == [i \in 1..Len(task[c]) |-> CancelTask(task[c][i])]
       IN  \E saveOk \in BOOLEAN :
               /\ Finish(c, tasks, << >>, TimeoutMessage, saveOk)
               /\ per_call_semaphore' =
                      [per_call_semaphore EXCEPT ![c] = @ + ReleasedOnCancel(task[c])]

\* a statement of the try block after the fan-out raises (the stderr of the
\* server is a pipe that may be closed: sys.stderr.write at 1459, 1466, 1579).
\* "except Exception" (1587) returns the error text, unless its own write to
\* stderr (1600) raises as well: then the exception leaves the handler.  Both
\* ways leave "async with search_semaphore".
InternalException(c) ==
    /\ pc[c] = "fanout"
    /\ \E saveOk \in BOOLEAN, handled \in BOOLEAN :
        LET timeout == \E i \in 1..Len(task[c]) : ~Finished(task[c][i])
            got == CollectResults([i \in 1..Len(task[c]) |-> TaskResult(task[c][i])])
            all == IF timeout THEN << >> ELSE got.all_matches
            err == IF timeout THEN TimeoutMessage ELSE got.error_occurred
            r == BuildResult(req[c].services, req[c].query, req[c].time_range,
                             progress[c], all, err, saveOk, c, now, cache[c])
        IN  /\ task' = [task EXCEPT ![c] = [i \in 1..Len(task[c]) |-> CancelTask(task[c][i])]]
            /\ per_call_semaphore' =
                   [per_call_semaphore EXCEPT ![c] = @ + ReleasedOnCancel(task[c])]
            /\ all_matches' = [all_matches EXCEPT ![c] = all]
            /\ spill' = [spill EXCEPT ![c] = r.file]
            /\ cache' = [cache EXCEPT ![c] = r.cache]
            /\ resp' = [resp EXCEPT ![c] = [NoResponse EXCEPT !.kind = "Error"]]
            /\ search_semaphore' = [search_semaphore EXCEPT ![c] = Release(@)]
            /\ pc' = [pc EXCEPT ![c] = IF handled THEN "done" ELSE "raised"]
    /\ UNCHANGED <<redis_connected, redis_reachable, statsd, req, progress, componentVars,
                   fileVars, unitVars>>

CallStep(c) ==
    \/ Start(c)
    \/ \E i \in 1..MaxServices : TaskAcquire(c, i)
    \/ \E i \in 1..MaxServices : TaskEmit(c, i)
    \/ \E i \in 1..MaxServices : TaskReturn(c, i)
    \/ \E i \in 1..MaxServices : TaskRaise(c, i)
    \/ Collect(c)
    \/ Deadline(c)

\* any number of calls in progress in one process
Next == StoreLost \/ \E c \in Calls : CallStep(c)

Spec == Init /\ [][Next]_vars

\* one caller that issues its calls one after the other
NextOneCall == StoreLost \/ CallStep(1)

SpecOneCall == Init /\ [][NextOneCall]_vars

\* one caller whose server may fail to write to its stderr
NextFaults == NextOneCall \/ InternalException(1)

SpecFaults == Init /\ [][NextFaults]_vars

\* one caller, in a deployment with or without Datadog
SpecMetrics == InitMetrics /\ [][NextOneCall]_vars

(***************************************************************************)
(* The cache objects on their own: one SearchCache (server.py 488-609) or  *)
(* one RedisCache (redis_coordinator.py 195-297) that lives across the     *)
(* searches, driven by the two calls the executor makes on its cache, the  *)
(* lookup of 1373-1376 and the put of 1509-1510.  redis_connected tells    *)
(* which of the two was selected at startup.                               *)
(***************************************************************************)
\* the time_range arguments: the handler's dict of two datetime objects
\* (1305-1308) and a dict of integers as tests/test_mcp_server.py passes
CacheWindows ==
    { [datetime |-> TRUE, value |-> <<14, 16>>], [datetime |-> FALSE, value |-> <<1>>] }

\* the (services, query, time_range) arguments of the cache calls: a search,
\* the same search with its services in the other order, one search that
\* differs from it in the services only, one in the pattern only, and the
\* same four with the other window
CacheArgs ==
    { [services |-> s, query |-> q, time_range |-> w] :
        s \in {<<"hub-ca-auth", "hub-na-auth">>, <<"hub-na-auth", "hub-ca-auth">>,
               <<"hub-ca-auth">>},
        q \in Queries, w \in CacheWindows } \
    { [services |-> <<"hub-ca-auth">>, query |-> "WARN", time_range |-> w] :
        w \in CacheWindows }

\* the match lists the searches put
CacheMatchLists == { << >>, <<Match("hub-ca-auth", 1)>> }

\* the metadata the executor puts with a match list (1469-1476, 1492)
PutMetadata(a, matches) ==
    [NoMetadata EXCEPT !.total_matches = Len(matches), !.services = a.services,
                       !.saved_to = GenerateOutputFilename(a.services, FALSE, 1, now)]

\* RedisCache._make_key: json.dumps(time_range, sort_keys=True) raises
\* TypeError on a datetime value, there is no conversion as in SearchCache
RedisMakeKey(a) ==
    [raised |-> a.time_range.datetime,
     key |-> [services |-> Sorted(a.services), query |-> a.query,
              time_range |-> a.time_range]]

\* cached = cache.get(...) and, on a hit, metadata["cached"] = True (1373-1376)
CacheLookup ==
    /\ ~redis_connected
    /\ \E a \in CacheArgs, mtime \in 1..MaxMtime, expired \in BOOLEAN :
        LET got == CacheGet(search_cache, MakeKey(a.services, a.query, a.time_range),
                            mtime, expired)
        IN  /\ search_cache' = IF got.hit THEN MarkCached(got.cache) ELSE got.cache
            /\ cache_ret' =
                   [op |-> "get", args |-> a, raised |-> FALSE, hit |-> got.hit,
                    matches |-> got.matches,
                    metadata |-> IF got.hit THEN [got.metadata EXCEPT !.cached = TRUE]
                                 ELSE NoMetadata]
    /\ UNCHANGED <<executorVars, fileVars, unitVars, redis_kv, cache_caps, recency>>

\* cache.put(services, query, time_range, all_matches, metadata) (1510)
CacheStore ==
    /\ ~redis_connected
    /\ \E a \in CacheArgs, matches \in CacheMatchLists :
        /\ search_cache' = CachePut(search_cache,
                                    MakeKey(a.services, a.query, a.time_range),
                                    matches, PutMetadata(a, matches))
        /\ cache_ret' = [NoReturn EXCEPT !.op = "put", !.args = a, !.matches = matches,
                                         !.metadata = PutMetadata(a, matches)]
    /\ UNCHANGED <<executorVars, fileVars, unitVars, redis_kv, cache_caps, recency>>

\* RedisCache.get, awaited: the TypeError of _make_key is none of the
\* exceptions get catches (257); json.loads gives back what json.dumps stored.
\* gone are the keys whose ttl_seconds have passed since the last call.
RedisLookup ==
    /\ redis_connected
    /\ \E a \in CacheArgs, gone \in SUBSET redis_kv :
        LET k == RedisMakeKey(a)
            kv == redis_kv \ gone
            found == { e \in kv : e.key = k.key }
        IN  /\ redis_kv' = kv
            /\ cache_ret' =
                IF k.raised THEN [NoReturn EXCEPT !.op = "get", !.args = a, !.raised = TRUE]
                ELSE IF found = {} THEN [NoReturn EXCEPT !.op = "get", !.args = a]
                ELSE LET e == CHOOSE x \in found : TRUE
                     IN  [op |-> "get", args |-> a, raised |-> FALSE, hit |-> TRUE,
                          matches |-> e.matches,
                          metadata |-> [e.metadata EXCEPT !.cached = TRUE]]
    /\ UNCHANGED <<executorVars, fileVars, unitVars, search_cache, cache_caps, recency>>

\* RedisCache.put, awaited: the TypeError of _make_key is caught (294) and
\* nothing is stored; setex replaces the value of the key
RedisStore ==
    /\ redis_connected
    /\ \E a \in CacheArgs, matches \in CacheMatchLists, gone \in SUBSET redis_kv :
        LET k == RedisMakeKey(a)
            kv == redis_kv \ gone
        IN  /\ redis_kv' =
                   IF k.raised THEN kv
                   ELSE { e \in kv : e.key # k.key } \cup
                        { [key |-> k.key, matches |-> matches,
                           metadata |-> PutMetadata(a, matches)] }
            /\ cache_ret' = [NoReturn EXCEPT !.op = "put", !.args = a, !.matches = matches,
                                             !.metadata = PutMetadata(a, matches)]
    /\ UNCHANGED <<executorVars, fileVars, unitVars, search_cache, cache_caps, recency>>

NextCache == CacheLookup \/ CacheStore \/ RedisLookup \/ RedisStore

SpecCache == Init /\ [][NextCache]_vars

(***************************************************************************)
(* The spill files on their own: the write of _execute_search (1483-1486), *)
(* read_search_file_handler (1605-1678) and cleanup_old_files_task         *)
(* (653-686).  A path is the directory text, as characters, and the parts  *)
(* of the file name; every name of the model ends in .json.                *)
(***************************************************************************)
\* the text a file name begins with
PrefixChars(prefix) ==
    CASE prefix = "logai-search" -> <<"l","o","g","a","i","-","s","e","a","r","c","h">>
      [] prefix = "logai-partial" -> <<"l","o","g","a","i","-","p","a","r","t","i","a","l">>
      [] prefix = "notes" -> <<"n","o","t","e","s">>
      [] OTHER -> << >>

\* str(file_path), up to the end of the name's prefix
PathStr(p) == p.dir \o <<"/">> \o PrefixChars(p.prefix)

\* file_path.name.startswith("logai-")
NameStartsWithLogai(p) == StartsWith(PrefixChars(p.prefix), <<"l","o","g","a","i","-">>)

\* st_size of a file holding json.dump(matches)
StSize(contents) == Len(contents)

\* the match lists the searches spill
SpillMatchLists ==
    { <<Match("hub-ca-auth", 1)>>, <<Match("hub-ca-auth", 2), Match("hub-ca-auth", 1)>> }

\* the files a search wrote: generate_output_filename puts them in LOG_DIR
SpillFiles == { f \in disk : f.path.dir = LOG_DIR }

\* paths of no file: a name without the prefix in the session directory and a
\* spill name directly in the output directory
MissingPaths ==
    { [dir |-> LOG_DIR, prefix |-> "notes", timestamp |-> Timestamp(0),
       services_str |-> << >>, unique_id |-> 0],
      [dir |-> file_output_dir, prefix |-> "logai-search", timestamp |-> Timestamp(0),
       services_str |-> <<"hub-ca-auth">>, unique_id |-> 9] }

\* lines 1483-1486: a search names its spill file and saves its matches
SpillWrite ==
    \E svcs \in {<<"hub-ca-auth">>}, all \in SpillMatchLists, is_partial \in BOOLEAN,
       ok \in BOOLEAN :
        LET uid == Cardinality(SpillFiles) + 1
            saved_file == GenerateOutputFilename(svcs, is_partial, uid, now)
            file == SaveMatchesToFile(all, saved_file, ok)
        IN  /\ Cardinality(SpillFiles) < MaxSpills
            /\ disk' = IF file.exists
                       THEN disk \cup {[path |-> file.path, contents |-> file.contents]}
                       ELSE disk
            /\ UNCHANGED <<executorVars, componentVars, unitVars, file_output_dir, now, last_sweep,
                           read_ret>>

\* the checks of read_search_file_handler in their order (1610-1644); p is
\* Path(file_path_str).resolve(), NoPath when the argument is missing
ReadKind(p) ==
    IF p = NoPath THEN "FilePathRequired"
    ELSE IF ~StartsWith(PathStr(p), file_output_dir) THEN "InvalidPath"
    ELSE IF ~NameStartsWithLogai(p) THEN "InvalidName"
    ELSE IF \A f \in disk : f.path # p THEN "NotFound"
    ELSE IF StSize((CHOOSE f \in disk : f.path = p).contents) > READ_MAX_SIZE THEN "TooLarge"
    ELSE "ok"

\* read_search_file_handler: the matches and metadata of 1646-1657, or an error
ReadSearchFile ==
    \E p \in { f.path : f \in disk } \cup MissingPaths \cup {NoPath} :
        LET kind == ReadKind(p)
            matches == IF kind = "ok" THEN (CHOOSE f \in disk : f.path = p).contents
                       ELSE << >>
        IN  /\ read_ret' = [op |-> "read", path |-> p, kind |-> kind, matches |-> matches,
                            total_matches |-> Len(matches)]
            /\ UNCHANGED <<executorVars, componentVars, unitVars, file_output_dir, disk, now,
                           last_sweep>>

\* datetime.strptime(parts[2], "%Y%m%d").timestamp(): midnight of the day in the name
FileTime(p) == p.timestamp.day * TicksPerDay

\* FILE_OUTPUT_DIR.glob("logai-*.json"): the files directly in the directory
Globbed == { f \in disk : f.path.dir = file_output_dir /\ NameStartsWithLogai(f.path) }

\* one iteration of cleanup_old_files_task after its sleep (657-677)
Sweep ==
    LET cutoff_time == now - FILE_RETENTION_HOURS
    IN  /\ now >= last_sweep + CLEANUP_INTERVAL_HOURS
        /\ disk' = disk \ { f \in Globbed : FileTime(f.path) < cutoff_time }
        /\ last_sweep' = now
        /\ UNCHANGED <<executorVars, componentVars, unitVars, file_output_dir, now, read_ret>>

\* an hour passes
Tick ==
    /\ now < MaxNow
    /\ now' = now + 1
    /\ UNCHANGED <<executorVars, componentVars, unitVars, file_output_dir, disk, last_sweep, read_ret>>

NextFiles == SpillWrite \/ ReadSearchFile \/ Sweep \/ Tick

SpecFiles == InitFiles /\ [][NextFiles]_vars

(***************************************************************************)
(* find_log_files (config.py 263-330) on its own.  An instant counts the   *)
(* slots since midnight UTC of day 0; a pattern with placeholders expands  *)
(* to one glob per (day, hour) it is formatted with.                       *)
(***************************************************************************)
\* strftime("%Y"), ("%m"), ("%d") and ("%H") of an instant: its day and its hour
HourPartition(t) ==
    [day |-> t \div (SlotsPerHour * TicksPerDay),
     hour |-> (t \div SlotsPerHour) % TicksPerDay]

\* the while loop of 292-296: current = start_hour, then + timedelta(hours=1)
\* while current <= end_time
RECURSIVE TimesToCheck(_, _)
TimesToCheck(current, end_time) ==
    IF current <= end_time
    THEN <<current>> \o TimesToCheck(current + SlotsPerHour, end_time)
    ELSE << >>

\* the globs of find_log_files: the pattern as it is when it has no
\* placeholder (284-288), else one expansion per time to check (302-328)
FindLogFiles(templated, start_hour, end_hour) ==
    IF ~templated THEN <<[day |-> -1, hour |-> -1]>>
    ELSE LET times_to_check == TimesToCheck(start_hour, end_hour)
         IN  [i \in 1..Len(times_to_check) |-> HourPartition(times_to_check[i])]

\* search_single_service calls find_log_files with the window of the request (900-904)
Discover ==
    \E templated \in BOOLEAN, start \in 0..MaxInstant, end \in 0..MaxInstant :
        /\ find_ret' = [op |-> "find", templated |-> templated, start |-> start, end |-> end,
                     globs |-> FindLogFiles(templated, start, end)]
        /\ UNCHANGED <<executorVars, componentVars, fileVars, resolve_ret, sem_key, sem, sem_ttl, collector>>

NextDiscover == Discover

SpecDiscover == Init /\ [][NextDiscover]_vars

(***************************************************************************)
(* resolve_service_names (config.py 101-206) on its own, called with the   *)
(* spellings of a few names: the words joined by a separator or by none,   *)
(* in lower or upper case, bare or padded with whitespace.                 *)
(***************************************************************************)
\* the words of the queries: a service name, a base name, an alternate name,
\* and a name of no service
WordLists ==
    { << <<"h","u","b">>, <<"c","a">>, <<"a","u","t","h">> >>,
      << <<"a","u","t","h">> >>,
      << <<"a","u","t","h">>, <<"s","e","r","v","i","c","e">> >>,
      << <<"p","a","y","m","e","n","t","s">> >> }

\* what stands between two words of a query
Separators == { <<"-">>, <<"_">>, <<" ">>, <<"\t">>, << >> }

\* sep.join(words)
RECURSIVE Join(_, _)
Join(words, sep) ==
    IF Len(words) = 1 THEN words[1]
    ELSE words[1] \o sep \o Join(Tail(words), sep)

\* the query texts of the calls
QueryTexts ==
    { pad[1] \o [i \in 1..Len(Join(w, sep)) |->
                    IF upper THEN Upper(Join(w, sep)[i]) ELSE Join(w, sep)[i]] \o pad[2] :
        w \in WordLists, sep \in Separators, upper \in BOOLEAN,
        pad \in { << << >>, << >> >>, << <<" ">>, << >> >>, << << >>, <<"\t">> >> } }

\* one call of resolve_service_names(query, config.services, locale)
Resolve ==
    \E query \in QueryTexts, locale \in Locales :
        /\ resolve_ret' = [op |-> "resolve", query |-> query, locale |-> locale,
                           services |-> ResolveServiceNames(query, locale)]
        /\ UNCHANGED <<executorVars, componentVars, fileVars, find_ret, sem_key, sem, sem_ttl, collector>>

NextResolve == Resolve

SpecResolve == Init /\ [][NextResolve]_vars

(***************************************************************************)
(* RedisSemaphore (redis_coordinator.py 138-192) on its own: every client  *)
(* has an object of its own on the same key, max_count is                  *)
(* MAX_GLOBAL_SEARCHES.  INCR, DECR and EXPIRE are atomic in the store;    *)
(* a step is the code of one client between two awaits.  The store         *)
(* answers every command and the key does not expire.                      *)
(***************************************************************************)
\* mutant: the attempt that was refused is not taken back
Decr_Forgotten(value) == value

\* DECR
Decr(value) == value - 1

\* mutant: one client too many is admitted
Admitted_OneMore(current, max_count) == current <= max_count + 1

\* the test of the value INCR returned (149)
Admitted(current, max_count) == current <= max_count

\* INCR and DECR create the key when it is missing, without an expiry, and
\* leave the expiry of an existing key alone
Created(ttl) == IF ttl = "absent" THEN "persistent" ELSE ttl

\* EXPIRE sets the expiry of an existing key and does nothing to a missing one
Expire(ttl) == IF ttl = "absent" THEN "absent" ELSE "volatile"

\* "async with": retry_count = 0 and the first incr (138-147)
SemEnter(k) ==
    /\ sem[k].pc \in {"out", "failed"}
    /\ sem_key' = sem_key + 1
    /\ sem_ttl' = Created(sem_ttl)
    /\ sem' = [sem EXCEPT ![k].pc = "incremented", ![k].current = sem_key + 1,
                          ![k].retry_count = 0]
    /\ UNCHANGED <<executorVars, componentVars, fileVars, resolve_ret, find_ret, collector>>

\* current <= max_count: token and _acquired are set and expire is sent
\* (149-153); otherwise the decr is sent (160-162)
SemDecide(k) ==
    /\ sem[k].pc = "incremented"
    /\ IF Admitted(sem[k].current, MAX_GLOBAL_SEARCHES)
       THEN /\ sem' = [sem EXCEPT ![k].pc = "expiring", ![k].token = sem[k].current,
                                  ![k].acquired = TRUE]
            /\ UNCHANGED <<sem_key, sem_ttl>>
       ELSE /\ sem_key' = Decr(sem_key)
            /\ sem_ttl' = Created(sem_ttl)
            /\ sem' = [sem EXCEPT ![k].pc = "sleeping"]
    /\ UNCHANGED <<executorVars, componentVars, fileVars, resolve_ret, find_ret, collector>>

\* expire returned: "return self" (153-159)
SemAcquired(k) ==
    /\ sem[k].pc = "expiring"
    /\ sem_ttl' = Expire(sem_ttl)
    /\ sem' = [sem EXCEPT ![k].pc = "holding"]
    /\ UNCHANGED <<executorVars, componentVars, fileVars, resolve_ret, find_ret, sem_key, collector>>

\* the sleep is over: retry_count += 1, then the next incr or, when the loop
\* condition fails, TimeoutError (163-164, 144-147, 173-176)
SemRetry(k) ==
    /\ sem[k].pc = "sleeping"
    /\ IF sem[k].retry_count + 1 < MaxRetries
       THEN /\ sem_key' = sem_key + 1
            /\ sem_ttl' = Created(sem_ttl)
            /\ sem' = [sem EXCEPT ![k].pc = "incremented", ![k].current = sem_key + 1,
                                  ![k].retry_count = @ + 1]
       ELSE /\ sem' = [sem EXCEPT ![k].pc = "failed", ![k].retry_count = @ + 1]
            /\ UNCHANGED <<sem_key, sem_ttl>>
    /\ UNCHANGED <<executorVars, componentVars, fileVars, resolve_ret, find_ret, collector>>

\* mutant: __aexit__ never gives the slot back
MustRelease_Never(s) == FALSE

\* "if self._acquired and self.token" (180): a token of 0 is false
MustRelease(s) == s.acquired /\ s.token # 0

\* __aexit__: the decr, when _acquired and token are set (178-182)
SemExit(k) ==
    /\ sem[k].pc = "holding"
    /\ IF MustRelease(sem[k])
       THEN sem_key' = Decr(sem_key) /\ sem_ttl' = Created(sem_ttl)
       ELSE UNCHANGED <<sem_key, sem_ttl>>
    /\ sem' = [sem EXCEPT ![k].pc = "out"]
    /\ UNCHANGED <<executorVars, componentVars, fileVars, resolve_ret, find_ret, collector>>

ClientStep(k) ==
    \/ SemEnter(k)
    \/ SemDecide(k)
    \/ SemAcquired(k)
    \/ SemRetry(k)
    \/ SemExit(k)

NextSemaphore == \E k \in Clients : ClientStep(k)

SpecSemaphore == Init /\ [][NextSemaphore]_vars

\* the event loop runs every coroutine that can run, and the store answers:
\* a client that is inside __aenter__ takes its next step
SpecSemaphoreLive ==
    /\ Init
    /\ [][NextSemaphore]_vars
    /\ \A k \in Clients : WF_vars(SemDecide(k) \/ SemAcquired(k) \/ SemRetry(k))

(***************************************************************************)
(* The same clients while the store drops the key when its expiry, set by  *)
(* the last "expire(key, 3600)", is reached.                               *)
(***************************************************************************)
\* the hour after the last successful acquire is over: the store deletes the
\* key, whatever its value and whoever holds a slot
KeyExpires ==
    /\ sem_ttl = "volatile"
    /\ sem_key' = 0
    /\ sem_ttl' = "absent"
    /\ UNCHANGED <<executorVars, componentVars, fileVars, resolve_ret, find_ret, sem, collector>>

NextExpiry == NextSemaphore \/ KeyExpires

SpecExpiry == Init /\ [][NextExpiry]_vars

(***************************************************************************)
(* The same clients while a call on the store may raise RedisError.  An    *)
(* acquire that met an error has raised RuntimeError; its caller does not  *)
(* try again.                                                              *)
(***************************************************************************)
\* incr raises, at the first attempt or at a later one: the except clause
\* raises RuntimeError (146-147, 166-171)
SemIncrFails(k) ==
    /\ \/ sem[k].pc \in {"out", "failed"}
       \/ sem[k].pc = "sleeping" /\ sem[k].retry_count + 1 < MaxRetries
    /\ sem' = [sem EXCEPT ![k].pc = "errored",
                          ![k].retry_count = IF sem[k].pc = "sleeping" THEN @ + 1 ELSE 0]
    /\ UNCHANGED <<executorVars, componentVars, fileVars, resolve_ret, find_ret, sem_key, sem_ttl, collector>>

\* expire raises after an increment within the limit: RuntimeError leaves
\* __aenter__, so that __aexit__ is never called (149-153, 166-171)
SemExpireFails(k) ==
    /\ sem[k].pc = "expiring"
    /\ sem' = [sem EXCEPT ![k].pc = "errored"]
    /\ UNCHANGED <<executorVars, componentVars, fileVars, resolve_ret, find_ret, sem_key, sem_ttl, collector>>

\* the decr of a refused attempt raises: RuntimeError (160-162, 166-171)
SemDecrFails(k) ==
    /\ sem[k].pc = "incremented"
    /\ ~Admitted(sem[k].current, MAX_GLOBAL_SEARCHES)
    /\ sem' = [sem EXCEPT ![k].pc = "errored"]
    /\ UNCHANGED <<executorVars, componentVars, fileVars, resolve_ret, find_ret, sem_key, sem_ttl, collector>>

\* the decr of __aexit__ raises: logged, not raised (181-192)
SemReleaseFails(k) ==
    /\ sem[k].pc = "holding"
    /\ MustRelease(sem[k])
    /\ sem' = [sem EXCEPT ![k].pc = "out"]
    /\ UNCHANGED <<executorVars, componentVars, fileVars, resolve_ret, find_ret, sem_key, sem_ttl, collector>>

StoreError(k) ==
    \/ SemIncrFails(k)
    \/ SemExpireFails(k)
    \/ SemDecrFails(k)
    \/ SemReleaseFails(k)

NextStoreErrors == \E k \in Clients : ClientStep(k) \/ StoreError(k)

SpecStoreErrors == Init /\ [][NextStoreErrors]_vars

(***************************************************************************)
(* SearchCache on its own, under any configured caps: put, get and clear   *)
(* (server.py 527-609).  The keys are md5 digests, here numbers.  The      *)
(* cache starts as n stores of different searches left it; the operations  *)
(* observed then use an old key, the newest key and new keys.              *)
(***************************************************************************)
\* cache_max_size_mb in bytes and cache_max_entries, as configured
CapConfigs == [max_bytes : {10, 20}, max_entries : {1, CACHE_MAX_ENTRIES, MaxSeed + 1}]

\* the cache after put was called for the keys 1..n, each with these matches
RECURSIVE SeedCache(_, _, _)
SeedCache(n, matches, caps) ==
    IF n = 0 THEN NewSearchCache
    ELSE CachePutWith(SeedCache(n - 1, matches, caps), n, matches, NoMetadata,
                      caps.max_bytes, caps.max_entries)

SeedCaches(caps) ==
    { SeedCache(n, matches, caps) : n \in 0..MaxSeed, matches \in CacheMatchLists }

CapKeys == {1, MaxSeed, MaxSeed + 1, MaxSeed + 2}

InitCaps ==
    /\ Loaded
    /\ statsd = "absent"
    /\ file_output_dir = <<"/","o","u","t">>
    /\ disk = {}
    /\ cache_caps \in CapConfigs
    /\ search_cache \in SeedCaches(cache_caps)

\* cache.put
CapPut ==
    /\ \E key \in CapKeys, matches \in CacheMatchLists :
        search_cache' = CachePutWith(search_cache, key, matches, NoMetadata,
                                     cache_caps.max_bytes, cache_caps.max_entries)
    /\ UNCHANGED <<executorVars, fileVars, unitVars, redis_kv, cache_ret, cache_caps, recency>>

\* cache.get
CapGet ==
    /\ \E key \in CapKeys, mtime \in 1..MaxMtime, expired \in Expiries(search_cache) :
        search_cache' = CacheGet(search_cache, key, mtime, expired).cache
    /\ UNCHANGED <<executorVars, fileVars, unitVars, redis_kv, cache_ret, cache_caps, recency>>

\* cache.clear
CapClear ==
    /\ search_cache' = CacheClear(search_cache)
    /\ UNCHANGED <<executorVars, fileVars, unitVars, redis_kv, cache_ret, cache_caps, recency>>

NextCaps == CapPut \/ CapGet \/ CapClear

SpecCaps == InitCaps /\ [][NextCaps]_vars

(***************************************************************************)
(* The order of eviction of SearchCache (527-604): a cache of              *)
(* CACHE_MAX_ENTRIES + 1 entries, searches with CACHE_MAX_ENTRIES + 2      *)
(* different fingerprints.  recency is kept beside the cache: a get that   *)
(* hits and a put that stores move the fingerprint to its end, and a       *)
(* fingerprint the cache no longer holds leaves it.                        *)
(***************************************************************************)
LruKeys == 1..(CACHE_MAX_ENTRIES + 2)

InitLru ==
    /\ Loaded
    /\ statsd = "absent"
    /\ file_output_dir = <<"/","o","u","t">>
    /\ disk = {}
    /\ cache_caps = [max_bytes |-> CACHE_MAX_BYTES, max_entries |-> CACHE_MAX_ENTRIES + 1]
    /\ search_cache = NewSearchCache

\* the fingerprints of the entries
KeysOf(entries) == { entries[i].key : i \in 1..Len(entries) }

\* s without the elements outside keep
RECURSIVE Restrict(_, _)
Restrict(s, keep) ==
    IF s = << >> THEN << >>
    ELSE IF Head(s) \in keep THEN <<Head(s)>> \o Restrict(Tail(s), keep)
    ELSE Restrict(Tail(s), keep)

\* the history after an access to key that left the cache with these entries
Accessed(order, key, entries) ==
    Restrict(Restrict(order, KeysOf(entries) \ {key})
                 \o (IF key \in KeysOf(entries) THEN <<key>> ELSE << >>),
             KeysOf(entries))

\* cache.put
LruPut ==
    /\ \E key \in LruKeys, matches \in CacheMatchLists :
        LET after == CachePutWith(search_cache, key, matches, NoMetadata,
                                  cache_caps.max_bytes, cache_caps.max_entries)
        IN  /\ search_cache' = after
            /\ recency' = Accessed(recency, key, after.entries)
            /\ cache_ret' = [NoReturn EXCEPT !.op = "put", !.matches = matches]
    /\ UNCHANGED <<executorVars, fileVars, unitVars, redis_kv, cache_caps>>

\* cache.get
LruGet ==
    /\ \E key \in LruKeys, mtime \in 1..MaxMtime, expired \in Expiries(search_cache) :
        LET got == CacheGet(search_cache, key, mtime, expired)
        IN  /\ search_cache' = got.cache
            /\ recency' = IF got.hit THEN Accessed(recency, key, got.cache.entries)
                          ELSE Restrict(recency, KeysOf(got.cache.entries))
            /\ cache_ret' = [NoReturn EXCEPT !.op = "get", !.hit = got.hit,
                                             !.matches = got.matches]
    /\ UNCHANGED <<executorVars, fileVars, unitVars, redis_kv, cache_caps>>

NextLru == LruPut \/ LruGet

SpecLru == InitLru /\ [][NextLru]_vars

(***************************************************************************)
(* SearchCache with its clock (541-609): every entry carries the time of   *)
(* its put, get compares its age with CACHE_TTL_MINUTES.  Two              *)
(* fingerprints, the entry cap of the configuration, a byte cap under      *)
(* which the larger result is or is not too large to be cached.            *)
(***************************************************************************)
TtlKeys == {1, 2}

TtlConfigs == { caps \in CapConfigs : caps.max_entries = CACHE_MAX_ENTRIES }

InitTtl ==
    /\ Loaded
    /\ statsd = "absent"
    /\ file_output_dir = <<"/","o","u","t">>
    /\ disk = {}
    /\ cache_caps \in TtlConfigs
    /\ search_cache = NewSearchCache

\* mutant: no entry is ever too old
Expired_Never(entry, t) == FALSE

\* age_minutes > CACHE_TTL_MINUTES (551-553)
Expired(entry, t) == t - entry.timestamp > CACHE_TTL_MINUTES

\* SearchCache.put at time t: CacheEntry(..., timestamp=time.time()) (585-591)
CachePutAt(cache0, key, matches, metadata, t, max_bytes, max_entries) ==
    LET after == CachePutWith(cache0, key, matches, metadata, max_bytes, max_entries)
        i == IndexOfKey(after.entries, key)
    IN  IF SerializedSize(matches, metadata) * 10 > max_bytes THEN after
        ELSE [after EXCEPT !.entries[i] =
                 [key |-> key, matches |-> matches, metadata |-> metadata,
                  size_bytes |-> after.entries[i].size_bytes, timestamp |-> t]]

\* SearchCache.get at time t
CacheGetAt(cache0, key, mtime, t) ==
    LET after == CheckConfigInvalidation(cache0, mtime)
        i == IndexOfKey(after.entries, key)
    IN  CacheGet(cache0, key, mtime, i # 0 /\ Expired(after.entries[i], t))

\* what the last call was given and what it answered; expired is the line
\* "[CACHE] Entry ... expired" on stderr (558), calls the parity of the number
\* of calls made
TtlReturn(op, key, mtime, hit, matches, expired) ==
    [op |-> op, args |-> [key |-> key, mtime |-> mtime], raised |-> FALSE, hit |-> hit,
     matches |-> matches, metadata |-> NoMetadata, expired |-> expired,
     calls |-> IF cache_ret.op = "none" THEN 1 ELSE 1 - cache_ret.calls]

\* cache.put
TtlPut ==
    /\ ~redis_connected
    /\ \E key \in TtlKeys, matches \in CacheMatchLists :
        /\ search_cache' = CachePutAt(search_cache, key, matches, NoMetadata, now,
                                      cache_caps.max_bytes, cache_caps.max_entries)
        /\ cache_ret' = TtlReturn("put", key, 0, FALSE, matches, FALSE)
    /\ UNCHANGED <<executorVars, fileVars, unitVars, redis_kv, cache_caps, recency>>

\* cache.get; the catalog file has the modification time mtime
TtlGet ==
    /\ ~redis_connected
    /\ \E key \in TtlKeys, mtime \in 1..(MaxMtime + 1) :
        LET got == CacheGetAt(search_cache, key, mtime, now)
        IN  /\ search_cache' = got.cache
            /\ cache_ret' = TtlReturn("get", key, mtime, got.hit, got.matches,
                                      /\ ~got.hit
                                      /\ IndexOfKey(CheckConfigInvalidation(search_cache, mtime).entries, key) # 0)
    /\ UNCHANGED <<executorVars, fileVars, unitVars, redis_kv, cache_caps, recency>>

\* cache.clear
TtlClear ==
    /\ ~redis_connected
    /\ search_cache' = CacheClear(search_cache)
    /\ cache_ret' = TtlReturn("clear", 0, 0, FALSE, << >>, FALSE)
    /\ UNCHANGED <<executorVars, fileVars, unitVars, redis_kv, cache_caps, recency>>

\* a minute passes
MinutePasses ==
    /\ ~redis_connected
    /\ now < MaxNow
    /\ now' = now + 1
    /\ UNCHANGED <<executorVars, componentVars, unitVars, file_output_dir, disk, last_sweep,
                   read_ret>>

NextTtl == TtlPut \/ TtlGet \/ TtlClear \/ MinutePasses

SpecTtl == InitTtl /\ [][NextTtl]_vars

\* put on the cache object get_search_cache() chooses: SearchCache without
\* the shared store, RedisCache with it
NextPut == TtlPut \/ RedisStore

SpecPut == InitTtl /\ [][NextPut]_vars

(***************************************************************************)
(* MetricsCollector (metrics_collector.py 26-212) on its own.  The gauges  *)
(* its methods send go through record_metric and change no counter.        *)
(***************************************************************************)
\* mutant: an overflow is counted as a search
CountOverflow_AsSearch(m) ==
    [m EXCEPT !.searches_with_overflow = @ + 1, !.total_searches = @ + 1]

\* record_overflow (61-64)
CountOverflow(m) == [m EXCEPT !.searches_with_overflow = @ + 1]

\* record_cache_hit (49-53)
RecordCacheHit ==
    /\ collector.cache_hits < MaxRecords
    /\ collector' = [collector EXCEPT !.cache_hits = @ + 1, !.total_searches = @ + 1]
    /\ UNCHANGED <<executorVars, componentVars, fileVars, resolve_ret, find_ret, sem_key, sem, sem_ttl>>

\* record_cache_miss (55-59)
RecordCacheMiss ==
    /\ collector.cache_misses < MaxRecords
    /\ collector' = [collector EXCEPT !.cache_misses = @ + 1, !.total_searches = @ + 1]
    /\ UNCHANGED <<executorVars, componentVars, fileVars, resolve_ret, find_ret, sem_key, sem, sem_ttl>>

RecordOverflow ==
    /\ collector.searches_with_overflow < MaxRecords
    /\ collector' = CountOverflow(collector)
    /\ UNCHANGED <<executorVars, componentVars, fileVars, resolve_ret, find_ret, sem_key, sem, sem_ttl>>

\* record_timeout (66-69)
RecordTimeout ==
    /\ collector.searches_with_timeout < MaxRecords
    /\ collector' = [collector EXCEPT !.searches_with_timeout = @ + 1]
    /\ UNCHANGED <<executorVars, componentVars, fileVars, resolve_ret, find_ret, sem_key, sem, sem_ttl>>

\* record_error (71-93)
RecordError ==
    /\ \E e \in ErrorTypes :
        /\ collector.errors_by_type[e] < MaxRecords
        /\ collector' = [collector EXCEPT !.errors_by_type[e] = @ + 1]
    /\ UNCHANGED <<executorVars, componentVars, fileVars, resolve_ret, find_ret, sem_key, sem, sem_ttl>>

\* reset (204-212)
ResetCollector ==
    /\ collector' = NewMetricsCollector
    /\ UNCHANGED <<executorVars, componentVars, fileVars, resolve_ret, find_ret, sem_key, sem, sem_ttl>>

NextCollector ==
    \/ RecordCacheHit
    \/ RecordCacheMiss
    \/ RecordOverflow
    \/ RecordTimeout
    \/ RecordError
    \/ ResetCollector

SpecCollector == InitMetrics /\ [][NextCollector]_vars

(***************************************************************************)
(* Properties.                                                             *)
(***************************************************************************)
Computed(c) == pc[c] = "done" /\ resp[c].kind = "result" /\ ~resp[c].metadata.cached

DeadlineFired(c) == \E i \in 1..Len(task[c]) : task[c][i].st = "cancelled"

\* the matches the scanners of call c produced, counted
Produced(c) == SumSeq([i \in 1..Len(task[c]) |-> Len(task[c][i].matches)])

\* every element of s occurs in t
AllIn(s, t) == \A k \in 1..Len(s) : \E n \in 1..Len(t) : t[n] = s[k]

ScansInFlight ==
    Cardinality({ p \in Calls \X (1..MaxServices) : p[2] \in Running(p[1]) })

\* C1: at every instant the number of service scans in flight, over all the
\* calls of the process, is at most the global cap max_global_searches.
C1_GlobalScanCap == ScansInFlight <= MAX_GLOBAL_SEARCHES

\* C2: within one call, the number of its scan tasks that hold a sub-slot and
\* have not finished is at most min(max_parallel_searches_per_call, number of
\* resolved services).
C2_PerCallScanCap ==
    \A c \in Calls :
        Cardinality(Running(c)) <=
            Min(MAX_PARALLEL_SEARCHES_PER_CALL, Len(req[c].services))

\* the per-call cap binds: as many scans run as the cap allows and one waits
C2_Witness ==
    \E c \in Calls :
        /\ Len(req[c].services) > MAX_PARALLEL_SEARCHES_PER_CALL
        /\ Cardinality(Running(c)) = MAX_PARALLEL_SEARCHES_PER_CALL
        /\ \E i \in 1..Len(task[c]) : task[c][i].st = "pending"

\* C3: once a search has completed neither partial nor overflowed, the next
\* search with the same services, pattern and window is served from the cache:
\* cached is true and total_matches is that of the first.
C3_RepeatServedFromCache ==
    [][\A c1, c2 \in Calls :
         ( /\ Computed(c1)
           /\ ~resp[c1].metadata.partial
           /\ ~resp[c1].metadata.overflow
           /\ ~DeadlineFired(c1)
           /\ \A i \in 1..Len(task[c1]) : task[c1][i].st = "returned"
           /\ pc[c2] \in {"idle", "done", "raised"}
           /\ <<pc[c2], req[c2], resp[c2]>>' # <<pc[c2], req[c2], resp[c2]>>
           /\ MakeKey(req'[c2].services, req'[c2].query, req'[c2].time_range)
                = MakeKey(req[c1].services, req[c1].query, req[c1].time_range) )
         => ( /\ pc'[c2] = "done"
              /\ resp'[c2].kind = "result"
              /\ resp'[c2].metadata.cached
              /\ resp'[c2].metadata.total_matches = resp[c1].metadata.total_matches )]_vars

\* C4: when the deadline fires, every match a scanner had produced is in the
\* result and in the spill file, and the result is partial with the timeout error.
C4_DeadlineKeepsMatches ==
    \A c \in Calls :
        (Computed(c) /\ DeadlineFired(c)) =>
            /\ resp[c].metadata.total_matches = Produced(c)
            /\ spill[c].exists => Len(spill[c].contents) = Produced(c)
            /\ resp[c].metadata.partial
            /\ resp[c].metadata.error = TimeoutMessage

\* C5: every response carries at most preview_limit matches, and they are the
\* first matches of the call's full match list.
C5_PreviewIsBoundedPrefix ==
    \A c \in Calls :
        resp[c].kind = "result" =>
            /\ Len(resp[c].matches) <= PREVIEW_MATCHES_LIMIT
            /\ Len(resp[c].matches) <= Len(all_matches[c])
            /\ resp[c].matches = SubSeq(all_matches[c], 1, Len(resp[c].matches))

\* a response cut to the preview limit although the spill file was not written
C5_Witness ==
    \E c \in Calls :
        /\ Computed(c)
        /\ ~spill[c].exists
        /\ Len(all_matches[c]) > PREVIEW_MATCHES_LIMIT
        /\ Len(resp[c].matches) = PREVIEW_MATCHES_LIMIT

\* C6: in every result, overflow is true exactly when total_matches exceeds
\* preview_limit, also when the spill file could not be written.
C6_OverflowIffOverLimit ==
    \A c \in Calls :
        resp[c].kind = "result" =>
            (resp[c].metadata.overflow <=>
                resp[c].metadata.total_matches > PREVIEW_MATCHES_LIMIT)

C8_PartialIffFailure ==
    \A c \in Calls :
        Computed(c) =>
            (resp[c].metadata.partial <=>
                \E i \in 1..Len(task[c]) : task[c][i].st \in {"raised", "cancelled"})

\* C9: a scan task that fails does not cancel the tasks of the other services:
\* a task is cancelled by the deadline only, and when the fan-out completes the
\* matches of every task that returned are in the result and in the spill file.
C9_SiblingsUnaffected ==
    \A c \in Calls :
        /\ pc[c] = "fanout" => ~DeadlineFired(c)
        /\ (Computed(c) /\ DeadlineFired(c)) => resp[c].metadata.error = TimeoutMessage
        /\ (Computed(c) /\ ~DeadlineFired(c)) =>
              /\ \A i \in 1..Len(task[c]) : task[c][i].st \in {"returned", "raised"}
              /\ \A i \in 1..Len(task[c]) :
                    task[c][i].st = "returned" =>
                        /\ AllIn(task[c][i].matches, all_matches[c])
                        /\ spill[c].exists => AllIn(task[c][i].matches, spill[c].contents)
              /\ resp[c].metadata.total_matches =
                    SumSeq([i \in 1..Len(task[c]) |->
                              IF task[c][i].st = "returned" THEN Len(task[c][i].matches) ELSE 0])

\* one service failed, another returned a match after it, and the match is in the result
C9_Witness ==
    \E c \in Calls : \E i, j \in 1..Len(task[c]) :
        /\ Computed(c)
        /\ task[c][i].st = "raised"
        /\ task[c][j].st = "returned"
        /\ Len(task[c][j].matches) > 0
        /\ AllIn(task[c][j].matches, all_matches[c])
        /\ resp[c].metadata.total_matches > 0

\* C10: a service whose scan fails after it emitted matches still contributes
\* those matches to the result and the spill file, and the result is partial.
C10_FailedScanKeepsMatches ==
    \A c \in Calls :
        (Computed(c) /\ ~DeadlineFired(c)) =>
            \A i \in 1..Len(task[c]) :
                (task[c][i].st = "raised" /\ Len(task[c][i].matches) > 0) =>
                    /\ AllIn(task[c][i].matches, all_matches[c])
                    /\ spill[c].exists => AllIn(task[c][i].matches, spill[c].contents)
                    /\ resp[c].metadata.partial

\* a call whose arguments passed resolution and the timestamp checks
Searching(r) == ~r.unresolved /\ r.query # ""

\* C11: once the shared store has stopped answering after a successful
\* connection at startup, a search that is started does not raise: it goes on
\* to a normal result with the local semaphore and cache.
C11_SearchSurvivesStoreLoss ==
    [][\A c \in Calls :
         ( /\ redis_connected
           /\ ~redis_reachable
           /\ pc[c] \in {"idle", "done"}
           /\ pc'[c] # pc[c] \/ req'[c] # req[c] \/ resp'[c] # resp[c]
           /\ Searching(req'[c]) )
         => ( /\ pc'[c] \in {"fanout", "done"}
              /\ resp'[c].kind \in {"none", "result"} )]_vars

\* C12: with the store reachable and the distributed semaphore and cache
\* selected, a search ends as it does with the local ones selected: the local
\* selection never raises, so neither does the distributed one.
C12_DistributedAsLocal ==
    \A c \in Calls :
        (redis_reachable /\ Searching(req[c])) =>
            /\ pc[c] # "raised"
            /\ resp[c].kind # "TypeError"

\* C13: a call one of whose tokens matches no service has returned the error:
\* its cache was not probed, no global slot is taken, it has no scan task and
\* no spill file, also when tokens before the unmatched one resolved.
C13_UnresolvedTokenEndsCall ==
    \A c \in Calls :
        req[c].unresolved =>
            /\ pc[c] = "done"
            /\ resp[c].kind = "ServiceNotFound"
            /\ cache[c] = NewSearchCache
            /\ search_semaphore[c] = MAX_GLOBAL_SEARCHES
            /\ task[c] = << >>
            /\ spill[c] = NoFile

\* a call ended by an unmatched token that came after a token that resolved
C13_Witness ==
    \E c \in Calls :
        /\ req[c].unresolved
        /\ req[c].services # << >>
        /\ resp[c].kind = "ServiceNotFound"

\* the log files handed to the scanners of call c
FilesHanded(c) == SumSeq([i \in 1..Len(task[c]) |-> task[c][i].files])

\* C20: in every computed result, files_searched is the number of log files
\* handed to the scanners over all the services of the call.
C20_FilesSearchedCounts ==
    \A c \in Calls :
        Computed(c) => resp[c].metadata.files_searched = FilesHanded(c)

Range(s) == { s[i] : i \in 1..Len(s) }

Count(s, x) == Cardinality({ i \in 1..Len(s) : s[i] = x })

\* s and t list the same services in some order
IsPermutation(s, t) ==
    /\ Len(s) = Len(t)
    /\ \A x \in Range(s) \cup Range(t) : Count(s, x) = Count(t, x)

\* the entry stored under key belongs to the search a, its services in any order
SameSearch(key, a) ==
    /\ IsPermutation(key.services, a.services)
    /\ key.query = a.query
    /\ key.time_range = a.time_range

\* the entries of the local cache that belong to the search a
LocalEntriesOf(a) ==
    { i \in 1..Len(search_cache.entries) : SameSearch(search_cache.entries[i].key, a) }

\* the local cache reads and writes one entry for a search whatever the order
\* of its services
C14_InLocalCache ==
    ~redis_connected =>
        /\ (cache_ret.op = "get" /\ ~cache_ret.hit) => LocalEntriesOf(cache_ret.args) = {}
        /\ (cache_ret.op = "get" /\ cache_ret.hit) =>
              /\ LocalEntriesOf(cache_ret.args) = {Len(search_cache.entries)}
              /\ search_cache.entries[Len(search_cache.entries)].matches = cache_ret.matches
        /\ (cache_ret.op = "put"
              /\ SerializedSize(cache_ret.matches, cache_ret.metadata) * 10 <= CACHE_MAX_BYTES) =>
              /\ LocalEntriesOf(cache_ret.args) = {Len(search_cache.entries)}
              /\ search_cache.entries[Len(search_cache.entries)].matches = cache_ret.matches

\* the distributed cache derives a fingerprint for every search and reads and
\* writes one entry for it whatever the order of its services
C14_InDistributedCache ==
    redis_connected =>
        /\ ~cache_ret.raised
        /\ (cache_ret.op = "get" /\ ~cache_ret.hit) =>
              { e \in redis_kv : SameSearch(e.key, cache_ret.args) } = {}
        /\ (cache_ret.op = "get" /\ cache_ret.hit) =>
              \E e \in redis_kv : /\ SameSearch(e.key, cache_ret.args)
                                  /\ e.matches = cache_ret.matches
        /\ cache_ret.op = "put" =>
              /\ Cardinality({ e \in redis_kv : SameSearch(e.key, cache_ret.args) }) = 1
              /\ \A e \in redis_kv :
                    SameSearch(e.key, cache_ret.args) => e.matches = cache_ret.matches

\* C14: two searches whose service lists are permutations of each other, with
\* the same pattern and window, derive the same fingerprint and read and write
\* the same cache entry, in the local and in the distributed cache.
C14_PermutationsShareEntry == C14_InLocalCache /\ C14_InDistributedCache

\* the (services, pattern, window) of two calls name the same search
SameArguments(a, b) ==
    /\ Range(a.services) = Range(b.services)
    /\ a.query = b.query
    /\ a.time_range = b.time_range

C16_OnlyCleanResultsCached ==
    \A c \in Calls :
        (pc[c] = "done" /\ resp[c].kind = "result" /\ cache[c].entries # << >>) =>
            /\ \A i \in 1..Len(task[c]) : task[c][i].st = "returned"
            /\ \A k \in 1..Len(cache[c].entries) :
                  /\ ~cache[c].entries[k].metadata.partial
                  /\ ~cache[c].entries[k].metadata.overflow
                  /\ Len(cache[c].entries[k].matches) <= PREVIEW_MATCHES_LIMIT

\* the directory dir is base_dir or lies below it
InsideTree(dir, base_dir) == dir = base_dir \/ StartsWith(dir, base_dir \o <<"/">>)

\* C17: when read_search_file is called on the path of a spill file a search
\* wrote, it succeeds and returns the matches of that file, each as often as the
\* search's full list holds it, and their count as total_matches.
C17_ReadReturnsSpill ==
    \A f \in SpillFiles :
        (read_ret.op = "read" /\ read_ret.path = f.path) =>
            /\ read_ret.kind = "ok"
            /\ IsPermutation(read_ret.matches, f.contents)
            /\ read_ret.total_matches = Len(f.contents)

\* C18: a read_search_file call returns file contents only for a path inside the
\* tree of the configured output directory, with a name that begins with logai-,
\* of a file that exists; for every other path it returns an error and no match.
C18_ReadOnlyInsideOutputTree ==
    [][ read_ret' # read_ret =>
          LET p == read_ret'.path
              allowed == /\ p # NoPath
                         /\ InsideTree(p.dir, file_output_dir)
                         /\ NameStartsWithLogai(p)
                         /\ \E f \in disk : f.path = p
          IN  /\ read_ret'.kind = "ok" => allowed
              /\ ~allowed => read_ret'.kind # "ok" /\ read_ret'.matches = << >> ]_vars

\* the time written in the name of a file
Written(p) == p.timestamp.day * TicksPerDay + p.timestamp.tod

\* at time t the file is older than the retention window
OlderThanWindow(p, t) == t - Written(p) > FILE_RETENTION_HOURS

\* C19: a sweep deletes every spill file a search wrote whose name's timestamp is
\* older than the retention window at the time of the sweep, and deletes no file
\* whose timestamp is not older than the window.
C19_SweepDeletesExactlyOld ==
    [][ last_sweep' # last_sweep =>
          /\ \A f \in SpillFiles : OlderThanWindow(f.path, now) => f \notin disk'
          /\ \A f \in disk \ disk' : OlderThanWindow(f.path, now) ]_vars

\* the hours, counted from midnight of day 0, that overlap the window
HoursOfWindow(start, end) == (start \div SlotsPerHour)..(end \div SlotsPerHour)

\* the hour, counted from midnight of day 0, a glob was expanded for
HourOfGlob(g) == g.day * TicksPerDay + g.hour

\* C21: for a pattern with placeholders and a window with start <= end, the globs
\* of find_log_files cover every hour from the hour of start to the hour of end,
\* the last partial hour included, also across a day boundary.
C21_EveryOverlappingHour ==
    (find_ret.op = "find" /\ find_ret.templated /\ find_ret.start <= find_ret.end) =>
        { HourOfGlob(find_ret.globs[i]) : i \in 1..Len(find_ret.globs) }
            = HoursOfWindow(find_ret.start, find_ret.end)

\* the normalization of a name: trimmed, lower case, every '_' and every
\* whitespace character turned into '-'
Normalization(name) ==
    LET t == Strip(name)
    IN  [i \in 1..Len(t) |->
            IF t[i] \in Whitespace \cup {"_"} THEN "-" ELSE Lower(t[i])]

\* C22: for every locale, a query that has the same normalization as the query
\* of a resolve_service_names call resolves to the list that call returned.
C22_SameNormalizationSameServices ==
    resolve_ret.op = "resolve" =>
        \A q \in QueryTexts :
            Normalization(q) = Normalization(resolve_ret.query) =>
                ResolveServiceNames(q, resolve_ret.locale) = resolve_ret.services

\* C23: the spellings of the same words with '-', with '_' and without a
\* separator resolve to the same set of services.
C23_SeparatorVariants ==
    resolve_ret.op = "resolve" =>
        \A w \in WordLists, s1 \in {<<"-">>, <<"_">>, << >>}, s2 \in {<<"-">>, <<"_">>, << >>} :
            resolve_ret.query = Join(w, s1) =>
                Range(ResolveServiceNames(Join(w, s2), resolve_ret.locale))
                    = Range(resolve_ret.services)

\* the error of a search as 1456-1466 set it from its tasks
ErrorOf(tasks) ==
    IF \E i \in 1..Len(tasks) : tasks[i].st = "cancelled" THEN TimeoutMessage
    ELSE CollectResults([i \in 1..Len(tasks) |-> TaskResult(tasks[i])]).error_occurred

\* C24: whatever the state of the metrics client, a call that passed the checks
\* of its arguments returns the result built from its matches: it does not
\* raise and is not answered with an error text.
C24_MetricsNeverChangeOutcome ==
    \A c \in Calls :
        (/\ ~redis_connected
         /\ pc[c] \in {"done", "raised"}
         /\ resp[c].kind \notin {"ServiceNotFound", "TimestampsRequired"}) =>
            /\ pc[c] = "done"
            /\ resp[c].kind = "result"
            /\ ~resp[c].metadata.cached =>
                   resp[c] = BuildResult(req[c].services, req[c].query, req[c].time_range,
                                         progress[c], all_matches[c], ErrorOf(task[c]),
                                         spill[c].exists, c, now, NewSearchCache).resp

\* a search ended with an overflowed result while the metrics client was failing
C24_Witness ==
    /\ statsd = "failing"
    /\ pc[1] = "done"
    /\ resp[1].kind = "result"
    /\ resp[1].metadata.overflow

\* the clients inside their "async with"
Holders == { k \in Clients : sem[k].pc = "holding" }

\* C25: under any interleaving of the clients' acquires and releases, at most
\* max_count clients are inside the semaphore at the same time.
C25_AtMostNHolders == Cardinality(Holders) <= MAX_GLOBAL_SEARCHES

\* the semaphore is full and another client is being refused
C25_Witness ==
    /\ Cardinality(Holders) = MAX_GLOBAL_SEARCHES
    /\ \E k \in Clients : sem[k].pc = "sleeping"

\* the clients whose increment is in the key: admitted, or refused and not yet
\* taken back
Counted == { k \in Clients : sem[k].pc \in {"incremented", "expiring", "holding"} }

\* C26: an acquire that began always ends, admitted or failed, after at most
\* max_retries attempts; every refused attempt is taken back, so that a failed
\* acquire leaves nothing in the counter.
C26_AcquireEndsAndCompensates ==
    /\ [](sem_key = Cardinality(Counted))
    /\ [](\A k \in Clients : sem[k].retry_count <= MaxRetries)
    /\ \A k \in Clients :
           (sem[k].pc = "incremented") ~> (sem[k].pc \in {"holding", "failed"})

\* an acquire failed after max_retries attempts on a semaphore that is still
\* full, and the counter holds the holders only
C26_Witness ==
    /\ \E k \in Clients : sem[k].pc = "failed" /\ sem[k].retry_count = MaxRetries
    /\ Cardinality(Holders) = MAX_GLOBAL_SEARCHES
    /\ sem_key = MAX_GLOBAL_SEARCHES

\* C27: a search that took a global slot gives it back exactly once when the
\* call ends, however it ends: the slot is taken during the fan-out and only
\* then, and the step that ends the fan-out adds one to the semaphore.
C27_GlobalSlotReleasedOnce ==
    /\ [](\A c \in Calls :
            search_semaphore[c] =
                IF pc[c] = "fanout" THEN MAX_GLOBAL_SEARCHES - 1 ELSE MAX_GLOBAL_SEARCHES)
    /\ [][\A c \in Calls :
            pc[c] = "fanout" /\ pc'[c] # "fanout"
                => search_semaphore'[c] = search_semaphore[c] + 1]_vars

\* a search ended by an internal exception after a scan task had failed
C27_Witness ==
    /\ pc[1] \in {"done", "raised"}
    /\ resp[1].kind = "Error"
    /\ \E i \in 1..Len(task[1]) : task[1][i].st = "raised"
    /\ search_semaphore[1] = MAX_GLOBAL_SEARCHES

\* C28: after the deadline cancelled a search, the global slot and all the
\* sub-slots of the call are free, and no task is inside the per-call semaphore.
C28_CancelReleasesBothTiers ==
    \A c \in Calls :
        DeadlineFired(c) =>
            /\ search_semaphore[c] = MAX_GLOBAL_SEARCHES
            /\ per_call_semaphore[c] = MAX_PARALLEL_SEARCHES_PER_CALL
            /\ Running(c) = {}

\* the deadline cancelled a task that held a sub-slot while another task was
\* waiting for one
C28_Witness ==
    /\ pc[1] = "done"
    /\ \E i, j \in 1..Len(task[1]) :
           /\ task[1][i].st = "cancelled" /\ task[1][i].files > 0
           /\ task[1][j].st = "cancelled" /\ task[1][j].files = 0
    /\ per_call_semaphore[1] = MAX_PARALLEL_SEARCHES_PER_CALL

\* C29: after the deadline cancelled a search, none of its scanner children is
\* still running.
C29_NoChildAfterDeadline ==
    \A c \in Calls :
        DeadlineFired(c) =>
            \A i \in 1..Len(task[c]) : task[c][i].child # "running"

\* the sum of the serialized sizes of the stored entries
RECURSIVE StoredBytes(_)
StoredBytes(entries) ==
    IF entries = << >> THEN 0
    ELSE SerializedSize(Head(entries).matches, Head(entries).metadata)
         + StoredBytes(Tail(entries))

\* C30: whatever was put, got and cleared, the local cache holds at most
\* max_entries entries (for a cap of at least 1) and the serialized sizes of its
\* entries add up to at most max_bytes.
C30_CacheWithinCaps ==
    /\ Len(search_cache.entries) <= cache_caps.max_entries
    /\ StoredBytes(search_cache.entries) <= cache_caps.max_bytes

\* an entry was evicted for the byte cap alone: no more than max_bytes entries
\* fit, fewer than the entry cap; the second search stored is gone, the third
\* is still there, and the stored sizes add up to the byte cap
C30_Witness ==
    /\ cache_caps.max_bytes < cache_caps.max_entries
    /\ StoredBytes(search_cache.entries) = cache_caps.max_bytes
    /\ IndexOfKey(search_cache.entries, 2) = 0
    /\ IndexOfKey(search_cache.entries, 3) # 0
    /\ IndexOfKey(search_cache.entries, MaxSeed + 2) # 0

\* the place of key in the history
PlaceIn(order, key) == CHOOSE i \in 1..Len(order) : order[i] = key

\* C31: when a put evicts, every entry it evicts was accessed (by a get that hit
\* or by a put, one that overwrote included) longer ago than every entry the put
\* leaves in the cache.
C31_EvictsLeastRecentlyAccessed ==
    [][cache_ret'.op = "put" =>
          \A gone \in KeysOf(search_cache.entries) \ KeysOf(search_cache'.entries) :
              \A kept \in (KeysOf(search_cache.entries) \cap KeysOf(search_cache'.entries))
                              \ {recency'[Len(recency')]} :
                  PlaceIn(recency, gone) < PlaceIn(recency, kept)]_vars

\* what a get step finds under the fingerprint it asks for, before the call
AskedEntry ==
    LET i == IndexOfKey(search_cache.entries, cache_ret'.args.key)
    IN  IF i = 0 THEN [found |-> FALSE, timestamp |-> 0, matches |-> << >>]
        ELSE [found |-> TRUE, timestamp |-> search_cache.entries[i].timestamp,
              matches |-> search_cache.entries[i].matches]

\* what the claim says of one get: an entry older than the TTL is a miss and is
\* removed, an entry within the TTL is returned, no entry is a miss
TtlRule ==
    /\ ~AskedEntry.found => ~cache_ret'.hit
    /\ AskedEntry.found /\ now - AskedEntry.timestamp > CACHE_TTL_MINUTES =>
           /\ ~cache_ret'.hit
           /\ cache_ret'.args.key \notin KeysOf(search_cache'.entries)
    /\ AskedEntry.found /\ now - AskedEntry.timestamp <= CACHE_TTL_MINUTES =>
           /\ cache_ret'.hit
           /\ cache_ret'.matches = AskedEntry.matches

\* the step is a get on the cache
GetStep == cache_ret' # cache_ret /\ cache_ret'.op = "get"

\* C32 as stated: every get follows the rule of the TTL.
C32_TtlDecidesEveryGet ==
    [][GetStep => TtlRule]_vars

\* the catalog file has not changed since the cache last looked at it
CatalogUnchanged ==
    search_cache.config_mtime = 0 \/ cache_ret'.args.mtime <= search_cache.config_mtime

\* C32: a get whose entry is older than the TTL misses and removes the entry (a
\* later get finds none and misses), and a get whose entry is within the TTL
\* returns it, as long as the catalog file has not changed since the last get.
C32_TtlDecidesGetOfUnchangedCatalog ==
    [][GetStep /\ CatalogUnchanged => TtlRule]_vars

\* a get found an entry older than the TTL, missed and removed it
C32_Witness ==
    /\ cache_ret.op = "get"
    /\ cache_ret.expired
    /\ ~cache_ret.hit
    /\ cache_ret.args.mtime = search_cache.config_mtime
    /\ now > CACHE_TTL_MINUTES
    /\ cache_ret.args.key \notin KeysOf(search_cache.entries)

\* the step is a put of a result larger than a tenth of the byte cap
OversizePutStep ==
    /\ cache_ret' # cache_ret
    /\ cache_ret'.op = "put"
    /\ SerializedSize(cache_ret'.matches, cache_ret'.metadata) * 10 > cache_caps.max_bytes

\* C33: a put of a result larger than a tenth of the byte cap stores and evicts
\* nothing: the local cache, its size total and the entries of the shared
\* store are what they were, the entry of the same fingerprint included.
C33_OversizePutChangesNothing ==
    [][OversizePutStep => search_cache' = search_cache /\ redis_kv' \subseteq redis_kv]_vars

\* the fingerprint of the search of call c
KeyOfCall(c) == MakeKey(req[c].services, req[c].query, req[c].time_range)

\* call c has computed its result and put it into the cache it was given
HasPut(c) ==
    /\ pc[c] = "done"
    /\ resp[c].kind = "result"
    /\ ~resp[c].metadata.cached
    /\ IndexOfKey(cache[c].entries, KeyOfCall(c)) # 0

\* C34: two searches with the same fingerprint that both missed are computing
\* at the same time; when the first of them puts its result, the cache holds
\* that entry for both (the put of the second will replace it, so that one
\* entry, the later one, remains).
C34_LaterPutWins ==
    [][\A c1, c2 \in Calls :
          /\ c1 # c2
          /\ pc[c1] = "fanout" /\ pc[c2] = "fanout"
          /\ KeyOfCall(c1) = KeyOfCall(c2)
          /\ HasPut(c1)'
          => cache'[c2].entries = cache'[c1].entries]_vars

\* C35: total_searches is always cache_hits + cache_misses, and a recording of
\* an overflow or of a timeout leaves total_searches as it was.
C35_SearchesAreHitsPlusMisses ==
    /\ [](collector.total_searches = collector.cache_hits + collector.cache_misses)
    /\ [][collector'.searches_with_overflow > collector.searches_with_overflow
          \/ collector'.searches_with_timeout > collector.searches_with_timeout
              => collector'.total_searches = collector.total_searches]_vars

\* hits, misses, an overflow, a timeout and an error have all been recorded
C35_Witness ==
    /\ collector.cache_hits > 0
    /\ collector.cache_misses > 0
    /\ collector.searches_with_overflow > 0
    /\ collector.searches_with_timeout > 0
    /\ \E e \in ErrorTypes : collector.errors_by_type[e] > 0
    /\ collector.total_searches = 2

\* the acquire attempts whose increment is in the key and whose outcome is not
\* yet decided
Attempting == { k \in Clients : sem[k].pc = "incremented" }

\* the clients that were admitted and have not released
Admits == { k \in Clients : sem[k].pc \in {"expiring", "holding"} }

\* C36: without store errors and key expiry, the key equals the number of
\* clients that hold a slot plus the number of attempts that incremented and
\* have not yet been decided or taken back; it is never negative, and it is 0
\* whenever no client holds or is acquiring.
C36_CounterCountsHoldersAndAttempts ==
    /\ sem_key = Cardinality(Admits) + Cardinality(Attempting)
    /\ sem_key >= 0
    /\ (\A k \in Clients : sem[k].pc \in {"out", "failed"}) => sem_key = 0

\* the key is back at 0 after a client held the slot and released it and
\* another gave up
C36_Witness ==
    /\ sem_key = 0
    /\ \E k \in Clients : sem[k].pc = "out" /\ sem[k].acquired
    /\ \E k \in Clients : sem[k].pc = "failed"

\* the clients whose __aenter__ returned and whose __aexit__ has not run
Inside == { k \in Clients : sem[k].pc = "holding" /\ sem[k].acquired }

\* C37: when the key expires while slots are held, still no more than
\* max_count clients are inside the semaphore at once, also after the earlier
\* holders have released.
C37_ExpiryKeepsTheLimit == Cardinality(Inside) <= MAX_GLOBAL_SEARCHES

\* client k's acquire ends with RuntimeError in this step
AcquireErrors(k) == sem[k].pc # "errored" /\ sem'[k].pc = "errored"

\* the increment of client k's running attempt is in the key
HasIncremented(k) == sem[k].pc \in {"incremented", "expiring"}

\* C38: an acquire that fails on a store error leaves nothing in the key: when
\* the error comes after the attempt's increment (on expire or on the
\* compensating decr) the increment is taken back, and when it comes on the
\* incr the key is as it was.
C38_FailedAcquireLeaksNothing ==
    [][\A k \in Clients :
          AcquireErrors(k) =>
              sem_key' = IF HasIncremented(k) THEN sem_key - 1 ELSE sem_key]_vars

\* the sum of the size_bytes fields of the stored entries
RECURSIVE SumOfSizes(_)
SumOfSizes(entries) ==
    IF entries = << >> THEN 0
    ELSE Head(entries).size_bytes + SumOfSizes(Tail(entries))

\* C39: after any puts, gets (hit, miss, expiry), catalog-change invalidations
\* and clears on the local cache, total_size_bytes is the sum of size_bytes
\* over the entries stored.
C39_TotalIsSumOfSizes ==
    search_cache.total_size_bytes = SumOfSizes(search_cache.entries)

\* a get has just removed an entry that was too old, and an entry of two bytes
\* is what remains
C39_Witness ==
    /\ cache_ret.op = "get"
    /\ cache_ret.expired
    /\ Len(search_cache.entries) = 1
    /\ search_cache.total_size_bytes = 2

====
